---- MODULE Spec2Model ----
(***************************************************************************)
(* The command pool of the battery charger's serial module (serial.c):     *)
(* a fixed array of cmd_entry slots linked into one of two TAILQs, the     *)
(* unused pool and the active pool, guarded by one semaphore.  Threads    *)
(* call init, deinit, add, get_next_command and the two counts; each call *)
(* is a sequence of steps, one per access to the shared state.            *)
(***************************************************************************)
EXTENDS Integers, Sequences, FiniteSets, TLC

\* ------------------------------------------------------------- constants

\* serial.h sets POOL_SIZE to 32; the model runs the same code on a smaller pool.
POOL_SIZE == 3
MAX_PORT_NAME == 30
CMD_SET_PARAMS == 99
CMD_ON_OFF == 100
CMD_EMERGENCY == 101
EXIT_SUCCESS == 0
EXIT_FAILURE == 1

\* Number of threads calling into the module.
NThreads == 2
\* Successful adds per session (between an init and the next deinit).
MaxAdmits == 4

Threads == 1..NThreads
Slots == 0..(POOL_SIZE - 1)

\* A pointer is a sequence of at most one element; NULL is the empty one.
NULL == <<>>
Ptr(x) == <<x>>
Deref(p) == p[1]

\* ------------------------------------------------------- device_command_t

\* command_type and the three bytes of the union; set_params and on_off
\* overlay the same bytes.
Cmd(type, b0, b1, b2) == [command_type |-> type, data |-> <<b0, b1, b2>>]
min_level(c) == c.data[1]
max_level(c) == c.data[2]
max_time(c) == c.data[3]
on_off(c) == c.data[1]
channel(c) == c.data[2]

SetParams(lo, hi, time) == Cmd(CMD_SET_PARAMS, lo, hi, time)
OnOff(on, ch) == Cmd(CMD_ON_OFF, on, ch, 0)
Emergency == Cmd(CMD_EMERGENCY, 0, 0, 0)
\* calloc's content of a slot
ZeroCmd == Cmd(0, 0, 0, 0)

\* (mutant) max_time 240 is refused
SetParamsBad_240(c) ==
    \/ min_level(c) > 100
    \/ max_level(c) > 100
    \/ max_time(c) = 0
    \/ max_time(c) >= 240
    \/ min_level(c) > max_level(c)

\* is_valid_command's test of a SET_PARAMS command
SetParamsBad(c) ==
    \/ min_level(c) > 100
    \/ max_level(c) > 100
    \/ max_time(c) = 0
    \/ max_time(c) > 240
    \/ min_level(c) > max_level(c)

\* (mutant) channel 8 is let through
OnOffBad_ch8(c) ==
    \/ (on_off(c) # 0 /\ on_off(c) # 1)
    \/ channel(c) > 8

\* (mutant) the byte after channel is tested as a max_time
OnOffBad_time(c) ==
    \/ (on_off(c) # 0 /\ on_off(c) # 1)
    \/ channel(c) > 7
    \/ max_time(c) > 240

\* is_valid_command's test of an ON_OFF command
OnOffBad(c) ==
    \/ (on_off(c) # 0 /\ on_off(c) # 1)
    \/ channel(c) > 7

\* (mutant) the switch has no default branch that fails
is_valid_command_no_default(p) ==
    IF p = NULL THEN EXIT_FAILURE
    ELSE LET c == Deref(p) IN
         CASE c.command_type = CMD_SET_PARAMS ->
                  IF SetParamsBad(c) THEN EXIT_FAILURE ELSE EXIT_SUCCESS
           [] c.command_type = CMD_ON_OFF ->
                  IF OnOffBad(c) THEN EXIT_FAILURE ELSE EXIT_SUCCESS
           [] OTHER -> EXIT_SUCCESS

is_valid_command(p) ==
    IF p = NULL THEN EXIT_FAILURE
    ELSE LET c == Deref(p) IN
         CASE c.command_type = CMD_SET_PARAMS ->
                  IF SetParamsBad(c) THEN EXIT_FAILURE ELSE EXIT_SUCCESS
           [] c.command_type = CMD_ON_OFF ->
                  IF OnOffBad(c) THEN EXIT_FAILURE ELSE EXIT_SUCCESS
           [] c.command_type = CMD_EMERGENCY -> EXIT_SUCCESS
           [] OTHER -> EXIT_FAILURE

\* ------------------------------------------------------------------ state

VARIABLES
    initialized,          \* static int initialized
    serial_fd,            \* static int serial_fd
    cmd_semaphore,        \* static sem_t cmd_semaphore: [live, value]
    active_command_pool,  \* TAILQ of slots, head first
    unused_command_pool,  \* TAILQ of slots, head first
    pool_entries,         \* static struct cmd_entry *pool_entries: NULL or the block
    block_live,           \* the block the queues point into is allocated
    slot_cmd,             \* the cmd field of each slot of that block
    os_fds,               \* descriptors the module has opened and not closed
    foreign_closed,       \* descriptors closed since the last init call that the module had not opened
    pc,                   \* each thread's position
    local,                \* each thread's parameters and local variables
    returned,             \* the call that returned in the latest step: its result and syslog line
    admitted,             \* commands added since init, in the order of their insertion
    retrieved,            \* commands handed out since init, in the order of their removal
    seen,                 \* what the observing caller read with its latest counts, if one observes
    caller                \* each thread's own device_command_t variable, in the behaviours that follow it

shared == <<initialized, serial_fd, cmd_semaphore, active_command_pool,
            unused_command_pool, pool_entries, block_live, slot_cmd>>
os == <<os_fds, foreign_closed>>
history == <<admitted, retrieved>>
vars == <<shared, os, pc, local, returned, history, seen, caller>>

queues == <<active_command_pool, unused_command_pool, slot_cmd>>

\* --------------------------------------------------------------- TAILQ

TAILQ_FIRST(q) == IF q = <<>> THEN NULL ELSE Ptr(Head(q))
\* (mutant) the entry is inserted at the head
TAILQ_INSERT_HEAD(q, e) == <<e>> \o q
TAILQ_INSERT_TAIL(q, e) == Append(q, e)
\* (mutant) the entry stays linked
TAILQ_REMOVE_skipped(q, e) == q
TAILQ_REMOVE(q, e) == SelectSeq(q, LAMBDA x : x # e)

\* ---------------------------------------------------------------- inputs

\* The descriptor open() hands out, and the one init records for "/dev/null".
OPENED_FD == 3
TEST_FD == 1

\* Port names by length and kind; /dev/null is the test mode.
DevNull == [name |-> "/dev/null", len |-> 9]
Tty30 == [name |-> "tty", len |-> MAX_PORT_NAME]
Tty31 == [name |-> "tty", len |-> MAX_PORT_NAME + 1]
Ports == {NULL, Ptr(DevNull), Ptr(Tty30), Ptr(Tty31)}

\* The commands the threads pass to add: valid ones, a SET_PARAMS with
\* min_level 101, an unknown tag, and no command.
ValidCmds == {OnOff(1, 1), SetParams(20, 80, 60)}
InvalidCmds == {SetParams(101, 100, 60), Cmd(255, 0, 0, 0)}
CallCmds == {NULL} \cup {Ptr(c) : c \in ValidCmds \cup InvalidCmds}

\* The caller's buffer before a get_next_command.
Buffers == {NULL, Ptr(ZeroCmd)}

\* ------------------------------------------------------------ call frames

Set(f, t, v) == [f EXCEPT ![t] = v]

\* cmd: add's parameter; dst: get_next_command's parameter (named cmd there);
\* port: init's port_name; entry, i, count: the local variables.
NoLocals == [cmd |-> NULL, dst |-> NULL, port |-> NULL, entry |-> NULL,
             i |-> 0, count |-> 0]

\* No call returned in the latest step.
NoReturn == [thread |-> 0, op |-> "", arg |-> NULL, ret |-> EXIT_SUCCESS, log |-> "",
             out |-> NULL]

\* The pointer the call was given: add's cmd, init's port_name.
ArgOf(frame) == IF frame.cmd # NULL THEN frame.cmd ELSE frame.port

\* A caller that reads the active count and then the unused count, and keeps
\* both: thread Observer, in the behaviours that start with seen.on.  `at` is
\* the number of commands added and handed out when the active count was read.
Observer == 1
NotSeen == [on |-> FALSE, active |-> -1, at |-> <<0, 0>>, unused |-> -1]
NoneSeen == [NotSeen EXCEPT !.on = TRUE]
Watching(t) == seen.on /\ t = Observer
SeenAtCall(t, label) ==
    IF Watching(t) /\ label # "unused_count_sem_wait" THEN NoneSeen ELSE seen
SeenAtReturn(t, op, value, line) ==
    IF ~Watching(t) THEN seen
    ELSE IF op = "get_active_command_count" /\ line = ""
      THEN [NoneSeen EXCEPT !.active = value,
                            !.at = <<Len(admitted), Len(retrieved)>>]
    ELSE IF op = "get_unused_command_count" /\ line = "" /\ seen.active >= 0
      THEN [seen EXCEPT !.unused = value]
    ELSE NoneSeen

\* The variable a caller passes by address to add and to get_next_command:
\* what it holds once a call has returned.  get_next_command's memcpy (333)
\* is the only statement of the module that writes through a caller's pointer.
NoCaller == [on |-> FALSE, buf |-> [t \in Threads |-> ZeroCmd]]
CallerAtReturn(t, op, value) ==
    IF caller.on /\ op = "get_next_command" /\ value = EXIT_SUCCESS
      THEN [caller EXCEPT !.buf[t] = Deref(local[t].dst)]
      ELSE caller

\* A call starts with its arguments and moves to its first step.
Enter(t, frame, label) ==
    /\ pc[t] = "idle"
    /\ pc' = Set(pc, t, label)
    /\ local' = Set(local, t, frame)
    /\ returned' = NoReturn
    /\ seen' = SeenAtCall(t, label)
    /\ UNCHANGED caller

\* A call moves on to its next step.
Goto(t, label) ==
    /\ pc' = Set(pc, t, label)
    /\ returned' = NoReturn
    /\ UNCHANGED <<local, seen, caller>>

\* A call moves on, with a local variable assigned.
GotoWith(t, label, frame) ==
    /\ pc' = Set(pc, t, label)
    /\ local' = Set(local, t, frame)
    /\ returned' = NoReturn
    /\ UNCHANGED <<seen, caller>>

\* A call returns: the thread is idle again, its locals are gone, and the
\* caller holds the returned value and what the call wrote to its buffer.
Return(t, op, value, line) ==
    /\ pc' = Set(pc, t, "idle")
    /\ local' = Set(local, t, NoLocals)
    /\ returned' = [thread |-> t, op |-> op, arg |-> ArgOf(local[t]), ret |-> value,
                    log |-> line, out |-> local[t].dst]
    /\ seen' = SeenAtReturn(t, op, value, line)
    /\ caller' = CallerAtReturn(t, op, value)

\* A call that returns from its first step.
Reject(t, op, arg, value, line) ==
    /\ pc[t] = "idle"
    /\ UNCHANGED <<pc, local>>
    /\ returned' = [thread |-> t, op |-> op, arg |-> arg, ret |-> value,
                    log |-> line, out |-> NULL]
    /\ seen' = SeenAtReturn(t, op, value, "rejected")
    /\ UNCHANGED caller

Init ==
    /\ initialized = 0
    /\ serial_fd = -1
    /\ cmd_semaphore = [live |-> FALSE, value |-> 0]
    /\ active_command_pool = <<>>
    /\ unused_command_pool = <<>>
    /\ pool_entries = NULL
    /\ block_live = FALSE
    /\ slot_cmd = [s \in Slots |-> ZeroCmd]
    /\ os_fds = {}
    /\ foreign_closed = {}
    /\ pc = [t \in Threads |-> "idle"]
    /\ local = [t \in Threads |-> NoLocals]
    /\ returned = NoReturn
    /\ admitted = <<>>
    /\ retrieved = <<>>
    /\ seen = NotSeen
    /\ caller = NoCaller

\* ------------------------------------------------------------- semaphore

\* (mutant) sem_wait returns without taking the semaphore down
sem_wait_ok_not_counted ==
    /\ cmd_semaphore.value > 0
    /\ UNCHANGED cmd_semaphore

\* sem_wait succeeds when the value is positive, and blocks otherwise.
sem_wait_ok ==
    /\ cmd_semaphore.value > 0
    /\ cmd_semaphore' = [cmd_semaphore EXCEPT !.value = @ - 1]

sem_post == cmd_semaphore' = [cmd_semaphore EXCEPT !.value = @ + 1]

\* (mutant) the failure path posts the semaphore it did not take
SemWait_posts_on_failure(t, at, op, then, failure, line) ==
    /\ pc[t] = at
    /\ \/ /\ sem_wait_ok
          /\ Goto(t, then)
       \/ /\ Return(t, op, failure, line)
          /\ sem_post
    /\ UNCHANGED <<initialized, serial_fd, queues, pool_entries, block_live>>
    /\ UNCHANGED <<os, history>>

\* sem_wait at the pc `at`: the lock is taken, or sem_wait returns non-zero.
SemWait(t, at, op, then, failure, line) ==
    /\ pc[t] = at
    /\ \/ /\ sem_wait_ok
          /\ Goto(t, then)
       \/ /\ Return(t, op, failure, line)
          /\ UNCHANGED cmd_semaphore
    /\ UNCHANGED <<initialized, serial_fd, queues, pool_entries, block_live>>
    /\ UNCHANGED <<os, history>>

\* What a read of a slot's cmd yields: its content while the block is
\* allocated, anything once the block has been freed.
GarbageCmds == {ZeroCmd, Cmd(255, 255, 255, 255)}
SlotRead(e) == IF block_live THEN {slot_cmd[e]} ELSE GarbageCmds \cup {slot_cmd[e]}

\* -------------------------------------------------------------------- add

\* (mutant) the command is not validated
AddCall_unvalidated(t, c) ==
    /\ IF initialized = 0
         THEN Reject(t, "add", c, EXIT_FAILURE, "Failed to add command: module not initialized")
       ELSE IF c = NULL
         THEN Reject(t, "add", c, EXIT_FAILURE, "Failed to add command: command pointer is NULL")
       ELSE Enter(t, [NoLocals EXCEPT !.cmd = c], "add_sem_wait")
    /\ UNCHANGED <<shared, os, history>>

AddCall(t, c) ==
    /\ IF initialized = 0
         THEN Reject(t, "add", c, EXIT_FAILURE, "Failed to add command: module not initialized")
       ELSE IF c = NULL
         THEN Reject(t, "add", c, EXIT_FAILURE, "Failed to add command: command pointer is NULL")
       ELSE IF is_valid_command(c) # EXIT_SUCCESS
         THEN Reject(t, "add", c, EXIT_FAILURE, "Failed to add command: command is invalid")
       ELSE Enter(t, [NoLocals EXCEPT !.cmd = c], "add_sem_wait")
    /\ UNCHANGED <<shared, os, history>>

\* (mutant) add goes on without the semaphore
AddSemWait_no_lock(t) ==
    /\ pc[t] = "add_sem_wait"
    /\ Goto(t, "add_first")
    /\ UNCHANGED <<shared, os, history>>

AddSemWait(t) ==
    SemWait(t, "add_sem_wait", "add", "add_first", EXIT_FAILURE,
            "Failed to lock semaphore while adding command")

\* (mutant) the pool-full path returns with the semaphore held
AddFirst_keeps_lock(t) ==
    /\ pc[t] = "add_first"
    /\ IF TAILQ_FIRST(unused_command_pool) = NULL
         THEN Return(t, "add", EXIT_FAILURE,
                     "Command pool is full (no unused entries available)")
         ELSE GotoWith(t, "add_remove",
                       [local[t] EXCEPT !.entry = TAILQ_FIRST(unused_command_pool)])
    /\ UNCHANGED <<initialized, serial_fd, cmd_semaphore, queues, pool_entries,
                   block_live>>
    /\ UNCHANGED <<os, history>>

\* (mutant) the pool is taken for full while one slot is left
AddFirst_full_early(t) ==
    /\ pc[t] = "add_first"
    /\ IF Len(unused_command_pool) <= 1
         THEN /\ sem_post
              /\ Return(t, "add", EXIT_FAILURE,
                        "Command pool is full (no unused entries available)")
         ELSE /\ GotoWith(t, "add_remove",
                          [local[t] EXCEPT !.entry = TAILQ_FIRST(unused_command_pool)])
              /\ UNCHANGED cmd_semaphore
    /\ UNCHANGED <<initialized, serial_fd, queues, pool_entries, block_live>>
    /\ UNCHANGED <<os, history>>

AddFirst(t) ==
    /\ pc[t] = "add_first"
    /\ IF TAILQ_FIRST(unused_command_pool) = NULL
         THEN /\ sem_post
              /\ Return(t, "add", EXIT_FAILURE,
                        "Command pool is full (no unused entries available)")
         ELSE /\ GotoWith(t, "add_remove",
                          [local[t] EXCEPT !.entry = TAILQ_FIRST(unused_command_pool)])
              /\ UNCHANGED cmd_semaphore
    /\ UNCHANGED <<initialized, serial_fd, queues, pool_entries, block_live>>
    /\ UNCHANGED <<os, history>>

\* (mutant) the semaphore is posted between the removal and the insertion
AddRemove_unlocked(t) ==
    /\ pc[t] = "add_remove"
    /\ unused_command_pool' = TAILQ_REMOVE(unused_command_pool, Deref(local[t].entry))
    /\ sem_post
    /\ Goto(t, "add_copy")
    /\ UNCHANGED <<initialized, serial_fd, active_command_pool,
                   pool_entries, block_live, slot_cmd>>
    /\ UNCHANGED <<os, history>>

AddRemove(t) ==
    /\ pc[t] = "add_remove"
    /\ unused_command_pool' = TAILQ_REMOVE(unused_command_pool, Deref(local[t].entry))
    /\ Goto(t, "add_copy")
    /\ UNCHANGED <<initialized, serial_fd, cmd_semaphore, active_command_pool,
                   pool_entries, block_live, slot_cmd>>
    /\ UNCHANGED <<os, history>>

\* (mutant) memcpy with the size of cmd_on_off_t: the last byte is not copied
AddCopy_short(t) ==
    /\ pc[t] = "add_copy"
    /\ LET e == Deref(local[t].entry)
           c == Deref(local[t].cmd)
       IN slot_cmd' = [slot_cmd EXCEPT ![e] =
              Cmd(c.command_type, c.data[1], c.data[2], slot_cmd[e].data[3])]
    /\ Goto(t, "add_insert")
    /\ UNCHANGED <<initialized, serial_fd, cmd_semaphore, active_command_pool,
                   unused_command_pool, pool_entries, block_live>>
    /\ UNCHANGED <<os, history>>

\* memcpy(&entry->cmd, cmd, sizeof(device_command_t))
\* (mutant) the command is not copied: the entry keeps what it held
AddCopy_not_copied(t) ==
    /\ pc[t] = "add_copy"
    /\ Goto(t, "add_insert")
    /\ UNCHANGED <<shared, os, history>>

AddCopy(t) ==
    /\ pc[t] = "add_copy"
    /\ slot_cmd' = [slot_cmd EXCEPT ![Deref(local[t].entry)] = Deref(local[t].cmd)]
    /\ Goto(t, "add_insert")
    /\ UNCHANGED <<initialized, serial_fd, cmd_semaphore, active_command_pool,
                   unused_command_pool, pool_entries, block_live>>
    /\ UNCHANGED <<os, history>>

\* (mutant) the filled entry is not linked in the active pool
AddInsert_unlinked(t) ==
    /\ pc[t] = "add_insert"
    /\ admitted' = Append(admitted, Deref(local[t].cmd))
    /\ Goto(t, "add_post")
    /\ UNCHANGED <<shared, os, retrieved>>

AddInsert(t) ==
    /\ pc[t] = "add_insert"
    /\ active_command_pool' =
           TAILQ_INSERT_TAIL(active_command_pool, Deref(local[t].entry))
    /\ admitted' = Append(admitted, Deref(local[t].cmd))
    /\ Goto(t, "add_post")
    /\ UNCHANGED <<initialized, serial_fd, cmd_semaphore, unused_command_pool,
                   pool_entries, block_live, slot_cmd>>
    /\ UNCHANGED <<os, retrieved>>

AddPost(t) ==
    /\ pc[t] = "add_post"
    /\ sem_post
    /\ Return(t, "add", EXIT_SUCCESS, "Command added successfully")
    /\ UNCHANGED <<initialized, serial_fd, queues, pool_entries, block_live>>
    /\ UNCHANGED <<os, history>>

\* ------------------------------------------------------- get_next_command

\* (mutant) the destination is not tested
GetCall_no_null_test(t, d) ==
    /\ IF initialized = 0
         THEN Reject(t, "get_next_command", d, EXIT_FAILURE,
                     "Failed to get command: module not initialized or NULL pointer")
         ELSE Enter(t, [NoLocals EXCEPT !.dst = d], "get_sem_wait")
    /\ UNCHANGED <<shared, os, history>>

\* (mutant) the module's state is not tested
GetCall_no_init_test(t, d) ==
    /\ IF d = NULL
         THEN Reject(t, "get_next_command", d, EXIT_FAILURE,
                     "Failed to get command: module not initialized or NULL pointer")
         ELSE Enter(t, [NoLocals EXCEPT !.dst = d], "get_sem_wait")
    /\ UNCHANGED <<shared, os, history>>

GetCall(t, d) ==
    /\ IF initialized = 0 \/ d = NULL
         THEN Reject(t, "get_next_command", d, EXIT_FAILURE,
                     "Failed to get command: module not initialized or NULL pointer")
         ELSE Enter(t, [NoLocals EXCEPT !.dst = d], "get_sem_wait")
    /\ UNCHANGED <<shared, os, history>>

GetSemWait(t) ==
    SemWait(t, "get_sem_wait", "get_next_command", "get_first", EXIT_FAILURE,
            "Failed to lock semaphore while getting command")

\* (mutant) an empty active pool makes the caller wait for a command
GetFirst_waits(t) ==
    /\ pc[t] = "get_first"
    /\ TAILQ_FIRST(active_command_pool) # NULL
    /\ GotoWith(t, "get_remove",
                [local[t] EXCEPT !.entry = TAILQ_FIRST(active_command_pool)])
    /\ UNCHANGED cmd_semaphore
    /\ UNCHANGED <<initialized, serial_fd, queues, pool_entries, block_live>>
    /\ UNCHANGED <<os, history>>

GetFirst(t) ==
    /\ pc[t] = "get_first"
    /\ IF TAILQ_FIRST(active_command_pool) = NULL
         THEN /\ sem_post
              /\ Return(t, "get_next_command", EXIT_FAILURE,
                        "No active commands available")
         ELSE /\ GotoWith(t, "get_remove",
                          [local[t] EXCEPT !.entry = TAILQ_FIRST(active_command_pool)])
              /\ UNCHANGED cmd_semaphore
    /\ UNCHANGED <<initialized, serial_fd, queues, pool_entries, block_live>>
    /\ UNCHANGED <<os, history>>

\* (mutant) the entry is read but stays linked in the active pool
GetRemove_peek(t) ==
    /\ pc[t] = "get_remove"
    /\ Goto(t, "get_copy")
    /\ UNCHANGED <<shared, os, history>>

GetRemove(t) ==
    /\ pc[t] = "get_remove"
    /\ active_command_pool' = TAILQ_REMOVE(active_command_pool, Deref(local[t].entry))
    /\ Goto(t, "get_copy")
    /\ UNCHANGED <<initialized, serial_fd, cmd_semaphore, unused_command_pool,
                   pool_entries, block_live, slot_cmd>>
    /\ UNCHANGED <<os, history>>

\* memcpy(cmd, &entry->cmd, sizeof(device_command_t))
GetCopy(t) ==
    /\ pc[t] = "get_copy"
    /\ \E c \in SlotRead(Deref(local[t].entry)) :
          /\ GotoWith(t, "get_insert", [local[t] EXCEPT !.dst = Ptr(c)])
          /\ retrieved' = Append(retrieved, c)
    /\ UNCHANGED <<shared, os, admitted>>

\* (mutant) the emptied entry is not put back
GetInsert_dropped(t) ==
    /\ pc[t] = "get_insert"
    /\ Goto(t, "get_post")
    /\ UNCHANGED <<shared, os, history>>

\* (mutant) the emptied entry goes to the head of the unused pool
GetInsert_head(t) ==
    /\ pc[t] = "get_insert"
    /\ unused_command_pool' = <<Deref(local[t].entry)>> \o unused_command_pool
    /\ Goto(t, "get_post")
    /\ UNCHANGED <<initialized, serial_fd, cmd_semaphore, active_command_pool,
                   pool_entries, block_live, slot_cmd>>
    /\ UNCHANGED <<os, history>>

GetInsert(t) ==
    /\ pc[t] = "get_insert"
    /\ unused_command_pool' =
           TAILQ_INSERT_TAIL(unused_command_pool, Deref(local[t].entry))
    /\ Goto(t, "get_post")
    /\ UNCHANGED <<initialized, serial_fd, cmd_semaphore, active_command_pool,
                   pool_entries, block_live, slot_cmd>>
    /\ UNCHANGED <<os, history>>

GetPost(t) ==
    /\ pc[t] = "get_post"
    /\ sem_post
    /\ Return(t, "get_next_command", EXIT_SUCCESS,
              "Command retrieved and entry returned to unused pool")
    /\ UNCHANGED <<initialized, serial_fd, queues, pool_entries, block_live>>
    /\ UNCHANGED <<os, history>>

\* ------------------------------------------------------------- the counts

ActiveCountCall(t) ==
    /\ IF initialized = 0
         THEN Reject(t, "get_active_command_count", NULL, 0, "")
         ELSE Enter(t, NoLocals, "active_count_sem_wait")
    /\ UNCHANGED <<shared, os, history>>

ActiveCountSemWait(t) ==
    SemWait(t, "active_count_sem_wait", "get_active_command_count",
            "active_count_walk", 0, "Failed to lock semaphore while counting commands")

\* (mutant) the walk is over the unused pool
ActiveCountWalk_unused(t) ==
    /\ pc[t] = "active_count_walk"
    /\ GotoWith(t, "active_count_post",
                [local[t] EXCEPT !.count = Len(unused_command_pool)])
    /\ UNCHANGED <<shared, os, history>>

\* TAILQ_FOREACH(entry, &active_command_pool, entries) count++
ActiveCountWalk(t) ==
    /\ pc[t] = "active_count_walk"
    /\ GotoWith(t, "active_count_post",
                [local[t] EXCEPT !.count = Len(active_command_pool)])
    /\ UNCHANGED <<shared, os, history>>

ActiveCountPost(t) ==
    /\ pc[t] = "active_count_post"
    /\ sem_post
    /\ Return(t, "get_active_command_count", local[t].count, "")
    /\ UNCHANGED <<initialized, serial_fd, queues, pool_entries, block_live>>
    /\ UNCHANGED <<os, history>>

UnusedCountCall(t) ==
    /\ IF initialized = 0
         THEN Reject(t, "get_unused_command_count", NULL, 0, "")
         ELSE Enter(t, NoLocals, "unused_count_sem_wait")
    /\ UNCHANGED <<shared, os, history>>

UnusedCountSemWait(t) ==
    SemWait(t, "unused_count_sem_wait", "get_unused_command_count",
            "unused_count_walk", 0, "Failed to lock semaphore while counting unused slots")

\* (mutant) the walk is over the active pool
UnusedCountWalk_active(t) ==
    /\ pc[t] = "unused_count_walk"
    /\ GotoWith(t, "unused_count_post",
                [local[t] EXCEPT !.count = Len(active_command_pool)])
    /\ UNCHANGED <<shared, os, history>>

\* TAILQ_FOREACH(entry, &unused_command_pool, entries) count++
UnusedCountWalk(t) ==
    /\ pc[t] = "unused_count_walk"
    /\ GotoWith(t, "unused_count_post",
                [local[t] EXCEPT !.count = Len(unused_command_pool)])
    /\ UNCHANGED <<shared, os, history>>

\* (mutant) the count returns without posting the semaphore
UnusedCountPost_forgotten(t) ==
    /\ pc[t] = "unused_count_post"
    /\ Return(t, "get_unused_command_count", local[t].count, "")
    /\ UNCHANGED <<shared, os, history>>

UnusedCountPost(t) ==
    /\ pc[t] = "unused_count_post"
    /\ sem_post
    /\ Return(t, "get_unused_command_count", local[t].count, "")
    /\ UNCHANGED <<initialized, serial_fd, queues, pool_entries, block_live>>
    /\ UNCHANGED <<os, history>>

\* ------------------------------------------------------------------- init

\* close(fd): of a descriptor the module opened, or of one it did not.
close(fd) ==
    IF fd \in os_fds
      THEN /\ os_fds' = os_fds \ {fd}
           /\ UNCHANGED foreign_closed
      ELSE /\ foreign_closed' = foreign_closed \cup {fd}
           /\ UNCHANGED os_fds

\* (mutant) a name of MAX_PORT_NAME characters is refused
InitCall_short_names(t, p) ==
    /\ IF initialized # 0
         THEN /\ Reject(t, "init", p, EXIT_FAILURE, "Serial communication already initialized")
              /\ UNCHANGED os
       ELSE IF p = NULL
         THEN /\ Reject(t, "init", p, EXIT_FAILURE, "Initialization failed: port name is NULL")
              /\ UNCHANGED os
       ELSE IF Deref(p).len >= MAX_PORT_NAME
         THEN /\ Reject(t, "init", p, EXIT_FAILURE,
                        "Initialization failed: port name exceeds maximum length")
              /\ UNCHANGED os
       ELSE /\ Enter(t, [NoLocals EXCEPT !.port = p], "init_open")
            /\ foreign_closed' = {}
            /\ UNCHANGED os_fds
    /\ UNCHANGED <<shared, history>>

\* (mutant) init does not test whether the module is initialized
InitCall_again(t, p) ==
    /\ IF p = NULL
         THEN /\ Reject(t, "init", p, EXIT_FAILURE, "Initialization failed: port name is NULL")
              /\ UNCHANGED os
       ELSE IF Deref(p).len > MAX_PORT_NAME
         THEN /\ Reject(t, "init", p, EXIT_FAILURE,
                        "Initialization failed: port name exceeds maximum length")
              /\ UNCHANGED os
       ELSE /\ Enter(t, [NoLocals EXCEPT !.port = p], "init_open")
            /\ foreign_closed' = {}
            /\ UNCHANGED os_fds
    /\ UNCHANGED <<shared, history>>

InitCall(t, p) ==
    /\ IF initialized # 0
         THEN /\ Reject(t, "init", p, EXIT_FAILURE, "Serial communication already initialized")
              /\ UNCHANGED os
       ELSE IF p = NULL
         THEN /\ Reject(t, "init", p, EXIT_FAILURE, "Initialization failed: port name is NULL")
              /\ UNCHANGED os
       ELSE IF Deref(p).len > MAX_PORT_NAME
         THEN /\ Reject(t, "init", p, EXIT_FAILURE,
                        "Initialization failed: port name exceeds maximum length")
              /\ UNCHANGED os
       ELSE /\ Enter(t, [NoLocals EXCEPT !.port = p], "init_open")
            /\ foreign_closed' = {}
            /\ UNCHANGED os_fds
    /\ UNCHANGED <<shared, history>>

\* "/dev/null" opens nothing; any other port is opened and configured, and
\* open, tcgetattr or tcsetattr may fail.
InitOpen(t) ==
    /\ pc[t] = "init_open"
    /\ IF Deref(local[t].port).name = "/dev/null"
         THEN /\ serial_fd' = TEST_FD
              /\ Goto(t, "init_sem")
              /\ UNCHANGED os
         ELSE \/ /\ serial_fd' = -1
                 /\ Return(t, "init", EXIT_FAILURE, "Failed to open serial port")
                 /\ UNCHANGED os
              \/ /\ serial_fd' = OPENED_FD
                 /\ Return(t, "init", EXIT_FAILURE, "Failed to get terminal attributes")
                 /\ UNCHANGED os
              \/ /\ serial_fd' = OPENED_FD
                 /\ Return(t, "init", EXIT_FAILURE, "Failed to set terminal attributes")
                 /\ UNCHANGED os
              \/ /\ serial_fd' = OPENED_FD
                 /\ os_fds' = os_fds \cup {OPENED_FD}
                 /\ Goto(t, "init_sem")
                 /\ UNCHANGED foreign_closed
    /\ UNCHANGED <<initialized, cmd_semaphore, queues, pool_entries, block_live>>
    /\ UNCHANGED history

InitSem(t) ==
    /\ pc[t] = "init_sem"
    /\ \/ /\ cmd_semaphore' = [live |-> TRUE, value |-> 1]
          /\ Goto(t, "init_tailq")
          /\ UNCHANGED os
       \/ /\ IF serial_fd >= 0 THEN close(serial_fd) ELSE UNCHANGED os
          /\ Return(t, "init", EXIT_FAILURE, "Failed to initialize semaphore")
          /\ UNCHANGED cmd_semaphore
    /\ UNCHANGED <<initialized, serial_fd, queues, pool_entries, block_live>>
    /\ UNCHANGED history

\* (mutant) only the unused pool is re-initialised
InitTailq_unused_only(t) ==
    /\ pc[t] = "init_tailq"
    /\ unused_command_pool' = <<>>
    /\ Goto(t, "init_calloc")
    /\ UNCHANGED <<initialized, serial_fd, cmd_semaphore, pool_entries, block_live,
                   slot_cmd, active_command_pool>>
    /\ UNCHANGED <<os, history>>

\* TAILQ_INIT of both pools
InitTailq(t) ==
    /\ pc[t] = "init_tailq"
    /\ active_command_pool' = <<>>
    /\ unused_command_pool' = <<>>
    /\ Goto(t, "init_calloc")
    /\ UNCHANGED <<initialized, serial_fd, cmd_semaphore, pool_entries, block_live,
                   slot_cmd>>
    /\ UNCHANGED <<os, history>>

InitCalloc(t) ==
    /\ pc[t] = "init_calloc"
    /\ \/ /\ pool_entries' = Ptr("block")
          /\ block_live' = TRUE
          /\ slot_cmd' = [s \in Slots |-> ZeroCmd]
          /\ Goto(t, "init_seed")
          /\ UNCHANGED <<cmd_semaphore, os>>
       \/ /\ pool_entries' = NULL
          /\ IF serial_fd >= 0 THEN close(serial_fd) ELSE UNCHANGED os
          /\ cmd_semaphore' = [cmd_semaphore EXCEPT !.live = FALSE]
          /\ Return(t, "init", EXIT_FAILURE, "Failed to allocate memory for command pool")
          /\ UNCHANGED <<block_live, slot_cmd>>
    /\ UNCHANGED <<initialized, serial_fd, active_command_pool, unused_command_pool>>
    /\ UNCHANGED history

\* for (i = 0; i < POOL_SIZE; i++) TAILQ_INSERT_TAIL(&unused_command_pool, ...)
InitSeed(t) ==
    /\ pc[t] = "init_seed"
    /\ IF local[t].i < POOL_SIZE
         THEN /\ unused_command_pool' =
                     TAILQ_INSERT_TAIL(unused_command_pool, local[t].i)
              /\ GotoWith(t, "init_seed", [local[t] EXCEPT !.i = @ + 1])
         ELSE /\ Goto(t, "init_done")
              /\ UNCHANGED unused_command_pool
    /\ UNCHANGED <<initialized, serial_fd, cmd_semaphore, active_command_pool,
                   pool_entries, block_live, slot_cmd>>
    /\ UNCHANGED <<os, history>>

InitDone(t) ==
    /\ pc[t] = "init_done"
    /\ initialized' = 1
    /\ admitted' = <<>>
    /\ retrieved' = <<>>
    /\ Return(t, "init", EXIT_SUCCESS, "Serial communication module initialized")
    /\ UNCHANGED <<serial_fd, cmd_semaphore, queues, pool_entries, block_live>>
    /\ UNCHANGED os

\* ----------------------------------------------------------------- deinit

\* (mutant) deinit runs whatever the module's state
DeinitCall_no_init_test(t) ==
    /\ Enter(t, NoLocals, "deinit_sem_wait")
    /\ UNCHANGED <<shared, os, history>>

DeinitCall(t) ==
    /\ IF initialized = 0
         THEN Reject(t, "deinit", NULL, EXIT_FAILURE,
                     "Deinitialization failed: module not initialized")
         ELSE Enter(t, NoLocals, "deinit_sem_wait")
    /\ UNCHANGED <<shared, os, history>>

\* (mutant) deinit goes on without the semaphore
DeinitSemWait_no_lock(t) ==
    /\ pc[t] = "deinit_sem_wait"
    /\ Goto(t, "deinit_close")
    /\ UNCHANGED <<shared, os, history>>

DeinitSemWait(t) ==
    SemWait(t, "deinit_sem_wait", "deinit", "deinit_close", EXIT_FAILURE,
            "Failed to lock semaphore during deinitialization")

DeinitClose(t) ==
    /\ pc[t] = "deinit_close"
    /\ IF serial_fd >= 0
         THEN /\ close(serial_fd)
              /\ serial_fd' = -1
         ELSE UNCHANGED <<os, serial_fd>>
    /\ Goto(t, "deinit_free")
    /\ UNCHANGED <<initialized, cmd_semaphore, queues, pool_entries, block_live>>
    /\ UNCHANGED history

\* free(pool_entries): the queue heads still point into the block.
DeinitFree(t) ==
    /\ pc[t] = "deinit_free"
    /\ IF pool_entries # NULL
         THEN /\ block_live' = FALSE
              /\ pool_entries' = NULL
         ELSE UNCHANGED <<block_live, pool_entries>>
    /\ Goto(t, "deinit_post")
    /\ UNCHANGED <<initialized, serial_fd, cmd_semaphore, queues>>
    /\ UNCHANGED <<os, history>>

DeinitPost(t) ==
    /\ pc[t] = "deinit_post"
    /\ sem_post
    /\ Goto(t, "deinit_destroy")
    /\ UNCHANGED <<initialized, serial_fd, queues, pool_entries, block_live>>
    /\ UNCHANGED <<os, history>>

DeinitDestroy(t) ==
    /\ pc[t] = "deinit_destroy"
    /\ cmd_semaphore' = [cmd_semaphore EXCEPT !.live = FALSE]
    /\ Goto(t, "deinit_done")
    /\ UNCHANGED <<initialized, serial_fd, queues, pool_entries, block_live>>
    /\ UNCHANGED <<os, history>>

DeinitDone(t) ==
    /\ pc[t] = "deinit_done"
    /\ initialized' = 0
    /\ Return(t, "deinit", EXIT_SUCCESS, "Serial communication module deinitialized")
    /\ UNCHANGED <<serial_fd, cmd_semaphore, queues, pool_entries, block_live>>
    /\ UNCHANGED <<os, history>>

\* ---------------------------------------------------------- specification

\* The steps inside a call.
Step(t) ==
    \/ AddSemWait(t) \/ AddFirst(t) \/ AddRemove(t) \/ AddCopy(t)
    \/ AddInsert(t) \/ AddPost(t)
    \/ GetSemWait(t) \/ GetFirst(t) \/ GetRemove(t) \/ GetCopy(t)
    \/ GetInsert(t) \/ GetPost(t)
    \/ ActiveCountSemWait(t) \/ ActiveCountWalk(t) \/ ActiveCountPost(t)
    \/ UnusedCountSemWait(t) \/ UnusedCountWalk(t) \/ UnusedCountPost(t)
    \/ InitOpen(t) \/ InitSem(t) \/ InitTailq(t) \/ InitCalloc(t)
    \/ InitSeed(t) \/ InitDone(t)
    \/ DeinitSemWait(t) \/ DeinitClose(t) \/ DeinitFree(t) \/ DeinitPost(t)
    \/ DeinitDestroy(t) \/ DeinitDone(t)

\* The caller's discipline of the tests and of the header: init and deinit are
\* called while no other call is running, and no call starts during them.
Alone(t) == \A u \in Threads \ {t} : pc[u] = "idle"
LifecyclePcs == {"init_open", "init_sem", "init_tailq", "init_calloc", "init_seed",
                 "init_done", "deinit_sem_wait", "deinit_close", "deinit_free",
                 "deinit_post", "deinit_destroy", "deinit_done"}
NoLifecycle == \A u \in Threads : pc[u] \notin LifecyclePcs

\* The adds that pass validation are bounded per session: those inserted and
\* those on their way.
AddPcs == {"add_sem_wait", "add_first", "add_remove", "add_copy", "add_insert"}
MayAdd == Len(admitted) + Cardinality({u \in Threads : pc[u] \in AddPcs}) < MaxAdmits

Call(t) ==
    \/ \E c \in CallCmds : MayAdd /\ AddCall(t, c)
    \/ \E d \in Buffers : GetCall(t, d)
    \/ ActiveCountCall(t)
    \/ UnusedCountCall(t)

Lifecycle(t) ==
    \/ \E p \in Ports : InitCall(t, p)
    \/ DeinitCall(t)

Next ==
    \E t \in Threads :
        \/ Step(t)
        \/ NoLifecycle /\ Call(t)
        \/ Alone(t) /\ Lifecycle(t)

Spec == Init /\ [][Next]_vars

\* Without the discipline on deinit: a thread may call deinit while other
\* calls are running, and calls may start while a deinit is running.  init is
\* still called alone.  The inputs are one valid command and the test port.
InitPcs == {"init_open", "init_sem", "init_tailq", "init_calloc", "init_seed",
            "init_done"}
NoInit == \A u \in Threads : pc[u] \notin InitPcs

RaceCall(t) ==
    \/ MayAdd /\ AddCall(t, Ptr(OnOff(1, 1)))
    \/ GetCall(t, Ptr(ZeroCmd))
    \/ ActiveCountCall(t)
    \/ UnusedCountCall(t)
    \/ DeinitCall(t)

NextRace ==
    \E t \in Threads :
        \/ Step(t)
        \/ NoInit /\ RaceCall(t)
        \/ Alone(t) /\ InitCall(t, Ptr(DevNull))

SpecRace == Init /\ [][NextRace]_vars

\* The module after a session that ended with `left` commands still active:
\* what a successful deinit of a "/dev/null" session leaves in the statics.
\* The calls are those of Spec.
LeftCmds == <<OnOff(1, 1), SetParams(20, 80, 60)>>
InitRestart ==
    \E left \in 0..Len(LeftCmds) :
        /\ initialized = 0
        /\ serial_fd = -1
        /\ cmd_semaphore = [live |-> FALSE, value |-> 1]
        /\ active_command_pool = [i \in 1..left |-> i - 1]
        /\ unused_command_pool = [i \in 1..(POOL_SIZE - left) |-> left + i - 1]
        /\ pool_entries = NULL
        /\ block_live = FALSE
        /\ slot_cmd = [s \in Slots |-> IF s < left THEN LeftCmds[s + 1] ELSE ZeroCmd]
        /\ os_fds = {}
        /\ foreign_closed = {TEST_FD}
        /\ pc = [t \in Threads |-> "idle"]
        /\ local = [t \in Threads |-> NoLocals]
        /\ returned = [thread |-> 1, op |-> "deinit", arg |-> NULL,
                       ret |-> EXIT_SUCCESS,
                       log |-> "Serial communication module deinitialized",
                       out |-> NULL]
        /\ admitted = SubSeq(LeftCmds, 1, left)
        /\ retrieved = <<>>
        /\ seen = NotSeen
        /\ caller = NoCaller

SpecRestart == InitRestart /\ [][Next]_vars

\* One producer on an initialized pool whose slots hold stale content, with
\* commands over sampled bytes of every field: one add as the first call, and
\* the gets.
ByteSamples == {0, 1, 2, 7, 8, 10, 60, 90, 100, 101, 240, 241, 255}
TagSamples == {0, CMD_SET_PARAMS, CMD_ON_OFF, CMD_EMERGENCY, 255}
WideCmds == {Cmd(ty, b0, b1, b2) : ty \in TagSamples, b0 \in ByteSamples,
                                  b1 \in ByteSamples, b2 \in ByteSamples}
StaleCmds == {ZeroCmd, SetParams(20, 80, 60)}

\* The pool after init and some adds and gets; the histories start here.
InitWide ==
    /\ initialized = 1
    /\ serial_fd = TEST_FD
    /\ cmd_semaphore = [live |-> TRUE, value |-> 1]
    /\ active_command_pool = <<>>
    /\ unused_command_pool = [i \in 1..POOL_SIZE |-> i - 1]
    /\ pool_entries = Ptr("block")
    /\ block_live = TRUE
    /\ slot_cmd \in {[s \in Slots |-> c] : c \in StaleCmds}
    /\ os_fds = {}
    /\ foreign_closed = {}
    /\ pc = [t \in Threads |-> "idle"]
    /\ local = [t \in Threads |-> NoLocals]
    /\ returned = NoReturn
    /\ admitted = <<>>
    /\ retrieved = <<>>
    /\ seen = NotSeen
    /\ caller = NoCaller

NextWide ==
    \/ /\ pc[1] = "idle"
       /\ returned = NoReturn
       /\ admitted = <<>>
       /\ \E c \in {NULL} \cup {Ptr(w) : w \in WideCmds} : AddCall(1, c)
    \/ AddSemWait(1) \/ AddFirst(1) \/ AddRemove(1) \/ AddCopy(1)
    \/ AddInsert(1) \/ AddPost(1)
    \/ GetCall(1, Ptr(ZeroCmd))
    \/ GetSemWait(1) \/ GetFirst(1) \/ GetRemove(1) \/ GetCopy(1)
    \/ GetInsert(1) \/ GetPost(1)

SpecWide == InitWide /\ [][NextWide]_vars

\* An observing caller on the initialized module: thread Observer reads the
\* active count and then the unused count, over and over, while the other
\* threads add a valid command and retrieve.
InitCounts ==
    /\ initialized = 1
    /\ serial_fd = TEST_FD
    /\ cmd_semaphore = [live |-> TRUE, value |-> 1]
    /\ active_command_pool = <<>>
    /\ unused_command_pool = [i \in 1..POOL_SIZE |-> i - 1]
    /\ pool_entries = Ptr("block")
    /\ block_live = TRUE
    /\ slot_cmd = [s \in Slots |-> ZeroCmd]
    /\ os_fds = {}
    /\ foreign_closed = {}
    /\ pc = [t \in Threads |-> "idle"]
    /\ local = [t \in Threads |-> NoLocals]
    /\ returned = NoReturn
    /\ admitted = <<>>
    /\ retrieved = <<>>
    /\ seen = NoneSeen
    /\ caller = NoCaller

StepPool(t) ==
    \/ AddSemWait(t) \/ AddFirst(t) \/ AddRemove(t) \/ AddCopy(t)
    \/ AddInsert(t) \/ AddPost(t)
    \/ GetSemWait(t) \/ GetFirst(t) \/ GetRemove(t) \/ GetCopy(t)
    \/ GetInsert(t) \/ GetPost(t)
    \/ ActiveCountSemWait(t) \/ ActiveCountWalk(t) \/ ActiveCountPost(t)
    \/ UnusedCountSemWait(t) \/ UnusedCountWalk(t) \/ UnusedCountPost(t)

NextCounts ==
    \E t \in Threads :
        \/ StepPool(t)
        \/ t = Observer /\ ActiveCountCall(t)
        \/ t = Observer /\ seen.active >= 0 /\ seen.unused < 0 /\ UnusedCountCall(t)
        \/ t # Observer /\ MayAdd /\ AddCall(t, Ptr(OnOff(1, 1)))
        \/ t # Observer /\ GetCall(t, Ptr(ZeroCmd))

SpecCounts == InitCounts /\ [][NextCounts]_vars

\* Consumers only: the initialized pool holds the commands admitted so far and
\* nothing is admitted afterwards.  A thread that has reached line 322 gets
\* to run it (the scheduler does not starve a runnable thread forever).
Queued(k) == [i \in 1..k |-> IF i % 2 = 1 THEN OnOff(1, 1) ELSE SetParams(20, 80, 60)]

InitDrain ==
    \E k \in 0..(POOL_SIZE - 1) :
        /\ initialized = 1
        /\ serial_fd = TEST_FD
        /\ cmd_semaphore = [live |-> TRUE, value |-> 1]
        /\ active_command_pool = [i \in 1..k |-> i - 1]
        /\ unused_command_pool = [i \in 1..(POOL_SIZE - k) |-> k + i - 1]
        /\ pool_entries = Ptr("block")
        /\ block_live = TRUE
        /\ slot_cmd = [s \in Slots |-> IF s < k THEN Queued(k)[s + 1] ELSE ZeroCmd]
        /\ os_fds = {}
        /\ foreign_closed = {}
        /\ pc = [t \in Threads |-> "idle"]
        /\ local = [t \in Threads |-> NoLocals]
        /\ returned = NoReturn
        /\ admitted = Queued(k)
        /\ retrieved = <<>>
        /\ seen = NotSeen
        /\ caller = NoCaller

NextDrain ==
    \E t \in Threads :
        \/ GetSemWait(t) \/ GetFirst(t) \/ GetRemove(t) \/ GetCopy(t)
        \/ GetInsert(t) \/ GetPost(t)
        \/ \E d \in Buffers : GetCall(t, d)

SpecDrain ==
    /\ InitDrain
    /\ [][NextDrain]_vars
    /\ \A t \in Threads : WF_vars(GetFirst(t))

\* sem_post returns non-zero.  add (288-296) and get_next_command (340-344)
\* log the failure and return EXIT_SUCCESS; deinit (224-239) logs it and goes
\* on to sem_destroy.  The semaphore keeps its value.
AddUnlockFailed == "Failed to unlock semaphore after adding command"
GetUnlockFailed == "Failed to unlock semaphore after getting command"

AddPostFails(t) ==
    /\ pc[t] = "add_post"
    /\ Return(t, "add", EXIT_SUCCESS, AddUnlockFailed)
    /\ UNCHANGED <<shared, os, history>>

GetPostFails(t) ==
    /\ pc[t] = "get_post"
    /\ Return(t, "get_next_command", EXIT_SUCCESS, GetUnlockFailed)
    /\ UNCHANGED <<shared, os, history>>

DeinitPostFails(t) ==
    /\ pc[t] = "deinit_post"
    /\ Goto(t, "deinit_destroy")
    /\ UNCHANGED <<shared, os, history>>

\* The pool in use, then torn down, over a semaphore whose sem_post can fail.
NextUnlock ==
    \E t \in Threads :
        \/ AddSemWait(t) \/ AddFirst(t) \/ AddRemove(t) \/ AddCopy(t)
        \/ AddInsert(t) \/ AddPost(t) \/ AddPostFails(t)
        \/ GetSemWait(t) \/ GetFirst(t) \/ GetRemove(t) \/ GetCopy(t)
        \/ GetInsert(t) \/ GetPost(t) \/ GetPostFails(t)
        \/ DeinitSemWait(t) \/ DeinitClose(t) \/ DeinitFree(t)
        \/ DeinitPost(t) \/ DeinitPostFails(t) \/ DeinitDestroy(t) \/ DeinitDone(t)
        \/ NoLifecycle /\ MayAdd /\ AddCall(t, Ptr(OnOff(1, 1)))
        \/ NoLifecycle /\ GetCall(t, Ptr(ZeroCmd))
        \/ Alone(t) /\ DeinitCall(t)

SpecUnlock == InitDrain /\ [][NextUnlock]_vars

\* Threads that call init without waiting for one another, from the state
\* the module starts in.
NextInitRace ==
    \E t \in Threads :
        \/ InitOpen(t) \/ InitSem(t) \/ InitTailq(t) \/ InitCalloc(t)
        \/ InitSeed(t) \/ InitDone(t)
        \/ InitCall(t, Ptr(DevNull))

SpecInitRace == Init /\ [][NextInitRace]_vars

\* Callers that keep one device_command_t variable each and pass its address:
\* thread Producer assigns its variable and adds it, the other threads hand it
\* to get_next_command.
Producer == 1

InitCopy ==
    /\ initialized = 1
    /\ serial_fd = TEST_FD
    /\ cmd_semaphore = [live |-> TRUE, value |-> 1]
    /\ active_command_pool = <<>>
    /\ unused_command_pool = [i \in 1..POOL_SIZE |-> i - 1]
    /\ pool_entries = Ptr("block")
    /\ block_live = TRUE
    /\ slot_cmd = [s \in Slots |-> ZeroCmd]
    /\ os_fds = {}
    /\ foreign_closed = {}
    /\ pc = [t \in Threads |-> "idle"]
    /\ local = [t \in Threads |-> NoLocals]
    /\ returned = NoReturn
    /\ admitted = <<>>
    /\ retrieved = <<>>
    /\ seen = NotSeen
    /\ caller = [NoCaller EXCEPT !.on = TRUE]

\* The caller assigns its variable between two calls.
CallerWrites(t, c) ==
    /\ pc[t] = "idle"
    /\ c # caller.buf[t]
    /\ caller' = [caller EXCEPT !.buf[t] = c]
    /\ returned' = NoReturn
    /\ UNCHANGED <<shared, os, pc, local, history, seen>>

NextCopy ==
    \E t \in Threads :
        \/ AddSemWait(t) \/ AddFirst(t) \/ AddRemove(t) \/ AddCopy(t)
        \/ AddInsert(t) \/ AddPost(t)
        \/ GetSemWait(t) \/ GetFirst(t) \/ GetRemove(t) \/ GetCopy(t)
        \/ GetInsert(t) \/ GetPost(t)
        \/ t = Producer /\ \E c \in ValidCmds : CallerWrites(t, c)
        \/ t = Producer /\ MayAdd /\ AddCall(t, Ptr(caller.buf[t]))
        \/ t # Producer /\ GetCall(t, Ptr(caller.buf[t]))

SpecCopy == InitCopy /\ [][NextCopy]_vars

\* The pool over a semaphore whose operations do not fail: sem_wait returns
\* only with the semaphore taken.  A thread inside a call is scheduled again
\* and again (weak fairness on its steps); which of the threads waiting in
\* sem_wait gets the semaphore after a sem_post is not specified for the
\* default scheduling policy, so taking it is only weakly fair too.
Lock(t, at, then) ==
    /\ pc[t] = at
    /\ sem_wait_ok
    /\ Goto(t, then)
    /\ UNCHANGED <<initialized, serial_fd, queues, pool_entries, block_live>>
    /\ UNCHANGED <<os, history>>

AddLock(t) == Lock(t, "add_sem_wait", "add_first")
GetLock(t) == Lock(t, "get_sem_wait", "get_first")
ActiveCountLock(t) == Lock(t, "active_count_sem_wait", "active_count_walk")
UnusedCountLock(t) == Lock(t, "unused_count_sem_wait", "unused_count_walk")

Acquire(t) == AddLock(t) \/ GetLock(t) \/ ActiveCountLock(t) \/ UnusedCountLock(t)

Inside(t) ==
    \/ AddFirst(t) \/ AddRemove(t) \/ AddCopy(t) \/ AddInsert(t) \/ AddPost(t)
    \/ GetFirst(t) \/ GetRemove(t) \/ GetCopy(t) \/ GetInsert(t) \/ GetPost(t)
    \/ ActiveCountWalk(t) \/ ActiveCountPost(t)
    \/ UnusedCountWalk(t) \/ UnusedCountPost(t)

NextLive ==
    \E t \in Threads :
        \/ AddLock(t) \/ GetLock(t) \/ ActiveCountLock(t) \/ UnusedCountLock(t)
        \/ AddFirst(t) \/ AddRemove(t) \/ AddCopy(t) \/ AddInsert(t) \/ AddPost(t)
        \/ GetFirst(t) \/ GetRemove(t) \/ GetCopy(t) \/ GetInsert(t) \/ GetPost(t)
        \/ ActiveCountWalk(t) \/ ActiveCountPost(t)
        \/ UnusedCountWalk(t) \/ UnusedCountPost(t)
        \/ MayAdd /\ AddCall(t, Ptr(OnOff(1, 1)))
        \/ GetCall(t, Ptr(ZeroCmd))
        \/ ActiveCountCall(t)
        \/ UnusedCountCall(t)

SpecLive ==
    /\ InitDrain
    /\ [][NextLive]_vars
    /\ \A t \in Threads : WF_vars(Inside(t)) /\ WF_vars(Acquire(t))

\* Producers and one consumer over the same semaphore: thread Consumer calls
\* get_next_command again whenever it has returned, the other threads add.
Consumer == 2

NextDeliver ==
    \E t \in Threads :
        \/ AddLock(t) \/ GetLock(t)
        \/ AddFirst(t) \/ AddRemove(t) \/ AddCopy(t) \/ AddInsert(t) \/ AddPost(t)
        \/ GetFirst(t) \/ GetRemove(t) \/ GetCopy(t) \/ GetInsert(t) \/ GetPost(t)
        \/ t # Consumer /\ MayAdd /\ AddCall(t, Ptr(OnOff(1, 1)))
        \/ t = Consumer /\ GetCall(t, Ptr(ZeroCmd))

SpecDeliver ==
    /\ InitDrain
    /\ [][NextDeliver]_vars
    /\ \A t \in Threads : WF_vars(Inside(t)) /\ WF_vars(Acquire(t))
    /\ WF_vars(GetCall(Consumer, Ptr(ZeroCmd)))

\* ------------------------------------------------------------------ claims

IsPrefix(s, t) == Len(s) <= Len(t) /\ \A i \in 1..Len(s) : s[i] = t[i]

AddFull == "Command pool is full (no unused entries available)"
AddInvalid == "Failed to add command: command is invalid"
AddNull == "Failed to add command: command pointer is NULL"
AddNoLock == "Failed to lock semaphore while adding command"

\* C1: the commands handed out by get_next_command are, in order, the first
\* of the commands added since init: none skipped, reordered or handed out twice.
C1_Fifo == IsPrefix(retrieved, admitted)

\* Two different commands were queued together and came out in their order.
C1_Witness ==
    /\ returned.op = "get_next_command"
    /\ returned.ret = EXIT_SUCCESS
    /\ Len(admitted) = 3
    /\ Len(retrieved) = 2
    /\ retrieved[1] # retrieved[2]
    /\ Len(active_command_pool) = 1

\* The steps between a successful sem_wait and the sem_post.
CriticalPcs == {"add_first", "add_remove", "add_copy", "add_insert", "add_post",
                "get_first", "get_remove", "get_copy", "get_insert", "get_post",
                "active_count_walk", "active_count_post",
                "unused_count_walk", "unused_count_post",
                "deinit_close", "deinit_free", "deinit_post"}
InCritical(t) == pc[t] \in CriticalPcs

\* Every slot is in exactly one queue, once.
Partition ==
    LET all == unused_command_pool \o active_command_pool IN
        /\ Len(all) = POOL_SIZE
        /\ {all[i] : i \in 1..Len(all)} = Slots

\* C2: while the module is initialized, no thread is inside the critical
\* section and no deinit is under way, every slot is a member of exactly one
\* of the two queues, so the lengths add up to POOL_SIZE.
C2_Partition ==
    (initialized = 1 /\ NoLifecycle /\ \A t \in Threads : ~InCritical(t))
        => (block_live /\ Partition
            /\ Len(unused_command_pool) + Len(active_command_pool) = POOL_SIZE)

\* Adds and gets have moved slots, and both queues hold some.
C2_Witness ==
    /\ initialized = 1
    /\ \A t \in Threads : pc[t] = "idle"
    /\ Len(retrieved) >= 2
    /\ Len(active_command_pool) >= 1
    /\ Len(unused_command_pool) >= 1
    /\ Head(unused_command_pool) # 0

\* C3: an add that finds the unused pool empty returns EXIT_FAILURE with the
\* semaphore released and both queues and every slot as they were; the active
\* pool then holds POOL_SIZE commands.
C3_PoolFull ==
    [][\A t \in Threads :
          (pc[t] = "add_first" /\ pc'[t] # "add_first" /\ unused_command_pool = <<>>)
              => /\ returned' = [thread |-> t, op |-> "add", arg |-> local[t].cmd,
                                 ret |-> EXIT_FAILURE, log |-> AddFull, out |-> NULL]
                 /\ pc'[t] = "idle"
                 /\ UNCHANGED queues
                 /\ cmd_semaphore'.value = 1
                 /\ Len(active_command_pool') = POOL_SIZE]_vars

\* An add of a valid command has just failed on a full pool.
C3_Witness ==
    /\ returned.op = "add"
    /\ returned.log = AddFull
    /\ returned.ret = EXIT_FAILURE
    /\ is_valid_command(returned.arg) = EXIT_SUCCESS
    /\ Len(active_command_pool) = POOL_SIZE
    /\ unused_command_pool = <<>>
    /\ cmd_semaphore.value = 1

\* A count call that took the lock (it did not return from its first step,
\* nor from a failed sem_wait).
Counted == initialized = 1 /\ returned.log = ""
Held == Len(admitted) - Len(retrieved)

\* C4: right after a successful init the active pool is empty and the unused
\* pool holds POOL_SIZE slots; get_active_command_count returns the number of
\* commands added minus the number handed out since init, and
\* get_unused_command_count returns POOL_SIZE minus that number.
C4_CountLaw ==
    /\ (returned.op = "init" /\ returned.ret = EXIT_SUCCESS)
          => (Len(active_command_pool) = 0 /\ Len(unused_command_pool) = POOL_SIZE
              /\ Held = 0)
    /\ (returned.op = "get_active_command_count" /\ Counted)
          => returned.ret = Held
    /\ (returned.op = "get_unused_command_count" /\ Counted)
          => returned.ret = POOL_SIZE - Held

\* After three adds and one get, get_unused_command_count returns POOL_SIZE - 2.
C4_Witness ==
    /\ returned.op = "get_unused_command_count"
    /\ Counted
    /\ Len(admitted) = 3
    /\ Len(retrieved) = 1
    /\ returned.ret = POOL_SIZE - 2

\* C5: a successful get_next_command hands out, field for field, the command
\* the caller of add passed in, whatever the slot held before.
C5_RoundTrip ==
    (returned.op = "get_next_command" /\ returned.ret = EXIT_SUCCESS)
        => /\ Len(retrieved) >= 1
           /\ Len(retrieved) <= Len(admitted)
           /\ returned.out = Ptr(admitted[Len(retrieved)])

\* A SET_PARAMS command came back from a slot that held another command.
C5_Witness ==
    /\ returned.op = "get_next_command"
    /\ returned.ret = EXIT_SUCCESS
    /\ returned.out = Ptr(SetParams(100, 100, 240))
    /\ slot_cmd[1] = SetParams(20, 80, 60)

\* The rule of the specification for SET_PARAMS.
SetParamsRule(c) ==
    /\ min_level(c) <= 100
    /\ max_level(c) <= 100
    /\ max_time(c) # 0
    /\ max_time(c) <= 240
    /\ min_level(c) <= max_level(c)

\* An add on the initialized pool with room went through: it returned
\* EXIT_SUCCESS, unless sem_wait failed.
Accepted == returned.ret = EXIT_SUCCESS \/ returned.log = AddNoLock
Refused == returned.ret = EXIT_FAILURE /\ returned.log = AddInvalid

\* C6: an add of a SET_PARAMS command is accepted if and only if
\* min_level <= 100, max_level <= 100, max_time # 0, max_time <= 240 and
\* min_level <= max_level; (0,0,1) and (100,100,240) are accepted, and
\* min_level 101, max_level 101, max_time 0, max_time 241 and
\* min_level > max_level are refused.
C6_SetParams ==
    (returned.op = "add" /\ returned.arg # NULL
       /\ Deref(returned.arg).command_type = CMD_SET_PARAMS)
        => /\ IF SetParamsRule(Deref(returned.arg)) THEN Accepted ELSE Refused
           /\ returned.arg \in {Ptr(SetParams(0, 0, 1)), Ptr(SetParams(100, 100, 240))}
                 => Accepted
           /\ returned.arg \in {Ptr(SetParams(101, 90, 60)), Ptr(SetParams(10, 101, 60)),
                                Ptr(SetParams(10, 90, 0)), Ptr(SetParams(10, 90, 241)),
                                Ptr(SetParams(90, 60, 60))}
                 => Refused

\* The upper boundary was added.
C6_Witness ==
    /\ returned.op = "add"
    /\ returned.arg = Ptr(SetParams(100, 100, 240))
    /\ returned.ret = EXIT_SUCCESS
    /\ active_command_pool # <<>>

\* The rule of the specification for ON_OFF.
OnOffRule(c) == on_off(c) \in {0, 1} /\ channel(c) <= 7

\* C7: an add of an ON_OFF command is accepted if and only if on_off is 0 or 1
\* and channel <= 7; channels 0 and 7 are accepted, on_off 2 and channel 8 are
\* refused.
C7_OnOff ==
    (returned.op = "add" /\ returned.arg # NULL
       /\ Deref(returned.arg).command_type = CMD_ON_OFF)
        => /\ IF OnOffRule(Deref(returned.arg)) THEN Accepted ELSE Refused
           /\ returned.arg \in {Ptr(OnOff(1, 0)), Ptr(OnOff(0, 7))} => Accepted
           /\ returned.arg \in {Ptr(OnOff(2, 7)), Ptr(OnOff(1, 8))} => Refused

\* Channel 8 was refused.
C7_Witness ==
    /\ returned.op = "add"
    /\ returned.arg = Ptr(OnOff(1, 8))
    /\ returned.ret = EXIT_FAILURE
    /\ returned.log = AddInvalid

\* C8: an add of an EMERGENCY command is accepted whatever the payload bytes;
\* a command with any other tag than the three is refused whatever the
\* payload; an add without a command fails.
C8_Tags ==
    returned.op = "add" =>
        IF returned.arg = NULL
          THEN returned.ret = EXIT_FAILURE /\ returned.log = AddNull
          ELSE LET c == Deref(returned.arg) IN
               /\ c.command_type = CMD_EMERGENCY => Accepted
               /\ c.command_type \notin {CMD_SET_PARAMS, CMD_ON_OFF, CMD_EMERGENCY}
                     => Refused

\* A command with tag 0xFF was refused.
C8_Witness ==
    /\ returned.op = "add"
    /\ returned.arg = Ptr(Cmd(255, 1, 7, 60))
    /\ returned.ret = EXIT_FAILURE
    /\ returned.log = AddInvalid

\* C9: an add of an invalid command, of a command with an unknown tag or of
\* no command fails, and the queues, every slot, the semaphore and every
\* thread are after the call as they were before it.
C9_RejectedUntouched ==
    [][(returned'.op = "add" /\ is_valid_command(returned'.arg) # EXIT_SUCCESS)
          => /\ returned'.ret = EXIT_FAILURE
             /\ UNCHANGED <<shared, os, pc, local, history>>]_vars

\* A command with an unknown tag was refused while commands were queued.
C9_Witness ==
    /\ returned.op = "add"
    /\ returned.arg = Ptr(Cmd(255, 0, 0, 0))
    /\ returned.ret = EXIT_FAILURE
    /\ initialized = 1
    /\ Len(active_command_pool) >= 1
    /\ Len(unused_command_pool) >= 1

Valid(c) == is_valid_command(Ptr(c)) = EXIT_SUCCESS

\* C10: every command in the active queue of the initialized pool, and every
\* command get_next_command has handed out, satisfies the validity rules of
\* its tag, for any sequence and interleaving of operations.
C10_PreValidated ==
    /\ (initialized = 1 /\ block_live)
          => \A i \in 1..Len(active_command_pool) :
                 Valid(slot_cmd[active_command_pool[i]])
    /\ \A i \in 1..Len(retrieved) : Valid(retrieved[i])

\* The four operations on the pool.
PoolOps == {"add", "get_next_command", "get_active_command_count",
            "get_unused_command_count"}
\* Thread t calls one of the pool operations in this step: it enters the
\* function's body or returns from its first test.
PoolCallBy(t) ==
    /\ pc[t] = "idle"
    /\ \/ pc'[t] \notin ({"idle"} \cup LifecyclePcs)
       \/ returned'.thread = t /\ returned'.op \in PoolOps

\* C11: while the module is uninitialized (before the first init and after
\* every successful deinit) add and get_next_command return EXIT_FAILURE and
\* the two counts return 0, at once and without touching anything, whatever
\* the arguments and whatever the queues held at deinit.
C11_Uninitialized ==
    [][\A t \in Threads :
          (initialized = 0 /\ PoolCallBy(t))
              => /\ pc'[t] = "idle"
                 /\ returned'.thread = t
                 /\ returned'.op \in {"add", "get_next_command"}
                       => returned'.ret = EXIT_FAILURE
                 /\ returned'.op \in {"get_active_command_count",
                                      "get_unused_command_count"}
                       => returned'.ret = 0
                 /\ UNCHANGED <<shared, os, history>>]_vars

\* After a deinit that left commands queued, a get_next_command with a
\* destination failed.
C11_Witness ==
    /\ initialized = 0
    /\ ~block_live
    /\ active_command_pool # <<>>
    /\ returned.op = "get_next_command"
    /\ returned.arg = Ptr(ZeroCmd)
    /\ returned.ret = EXIT_FAILURE

InitAlready == "Serial communication already initialized"
DeinitNotInit == "Deinitialization failed: module not initialized"
DeinitNoLock == "Failed to lock semaphore during deinitialization"
DeinitPcs == LifecyclePcs \ InitPcs

\* Thread t calls init in this step.
InitCallBy(t) ==
    /\ pc[t] = "idle"
    /\ \/ pc'[t] \in InitPcs
       \/ returned'.thread = t /\ returned'.op = "init"

\* Thread t calls deinit in this step.
DeinitCallBy(t) ==
    /\ pc[t] = "idle"
    /\ \/ pc'[t] \in DeinitPcs
       \/ returned'.thread = t /\ returned'.op = "deinit"

\* C12: init on an initialized module returns EXIT_FAILURE at once, whatever
\* the port name, and the module stays initialized with both queues, the
\* slots, the semaphore and serial_fd as they were.
C12_DoubleInit ==
    [][\A t \in Threads :
          (initialized = 1 /\ InitCallBy(t))
              => /\ pc'[t] = "idle"
                 /\ returned'.thread = t
                 /\ returned'.ret = EXIT_FAILURE
                 /\ returned'.log = InitAlready
                 /\ initialized' = 1
                 /\ UNCHANGED <<shared, os, history>>]_vars

\* init with a port name that is too long was refused as a second init while
\* a command was queued.
C12_Witness ==
    /\ initialized = 1
    /\ returned.op = "init"
    /\ returned.arg = Ptr(Tty31)
    /\ returned.ret = EXIT_FAILURE
    /\ returned.log = InitAlready
    /\ active_command_pool # <<>>
    /\ cmd_semaphore = [live |-> TRUE, value |-> 1]

\* C13: deinit on an uninitialized module returns EXIT_FAILURE at once and
\* changes nothing; a deinit that returns EXIT_SUCCESS leaves the module
\* uninitialized, and a deinit on an initialized module returns EXIT_SUCCESS
\* unless its sem_wait fails: of two deinit calls in a row after an init the
\* first succeeds and the second fails.
C13_DoubleDeinit ==
    [][\A t \in Threads :
          /\ (initialized = 0 /\ DeinitCallBy(t))
                => /\ pc'[t] = "idle"
                   /\ returned'.thread = t
                   /\ returned'.ret = EXIT_FAILURE
                   /\ returned'.log = DeinitNotInit
                   /\ UNCHANGED <<shared, os, history>>
          /\ (returned'.thread = t /\ returned'.op = "deinit"
                /\ returned'.ret = EXIT_SUCCESS)
                => (initialized = 1 /\ initialized' = 0)
          /\ (initialized = 1 /\ returned'.thread = t /\ returned'.op = "deinit"
                /\ returned'.ret # EXIT_SUCCESS)
                => returned'.log = DeinitNoLock]_vars

\* deinit failed on a module that an earlier deinit had torn down.
C13_Witness ==
    /\ initialized = 0
    /\ returned.op = "deinit"
    /\ returned.ret = EXIT_FAILURE
    /\ returned.log = DeinitNotInit
    /\ serial_fd = -1
    /\ cmd_semaphore = [live |-> FALSE, value |-> 1]
    /\ pool_entries = NULL

\* What init logs when the port, the semaphore or the memory is not to be had.
InitEnvFailures == {"Failed to open serial port", "Failed to get terminal attributes",
                    "Failed to set terminal attributes",
                    "Failed to initialize semaphore",
                    "Failed to allocate memory for command pool"}
GoodPort(p) == p # NULL /\ Deref(p).len <= MAX_PORT_NAME

\* C14: after a session that ended with commands still active, deinit having
\* succeeded whatever their number, init is not refused and fails only if the
\* port, the semaphore or the memory cannot be had; when it succeeds the
\* active pool is empty, the unused pool holds all POOL_SIZE slots, the counts
\* are 0 and POOL_SIZE, and get_next_command hands out only commands added
\* since that init.
C14_Restart ==
    /\ [][\A t \in Threads :
            /\ (initialized = 1 /\ returned'.thread = t /\ returned'.op = "deinit")
                  => (returned'.ret = EXIT_SUCCESS \/ returned'.log = DeinitNoLock)
            /\ (initialized = 0 /\ InitCallBy(t) /\ pc'[t] = "idle")
                  => (returned'.ret = EXIT_FAILURE /\ ~GoodPort(returned'.arg))
            /\ (returned'.thread = t /\ returned'.op = "init"
                  /\ GoodPort(returned'.arg) /\ initialized = 0)
                  => \/ returned'.ret = EXIT_FAILURE /\ returned'.log \in InitEnvFailures
                     \/ /\ returned'.ret = EXIT_SUCCESS
                        /\ initialized' = 1
                        /\ active_command_pool' = <<>>
                        /\ unused_command_pool' = [i \in 1..POOL_SIZE |-> i - 1]
                        /\ block_live'
                        /\ cmd_semaphore' = [live |-> TRUE, value |-> 1]
                        /\ admitted' = <<>> /\ retrieved' = <<>>]_vars
    /\ [](/\ (returned.op = "get_active_command_count" /\ Counted)
                => returned.ret = Held
          /\ (returned.op = "get_unused_command_count" /\ Counted)
                => returned.ret = POOL_SIZE - Held
          /\ (returned.op = "get_next_command" /\ returned.ret = EXIT_SUCCESS)
                => /\ Len(retrieved) \in 1..Len(admitted)
                   /\ returned.out = Ptr(admitted[Len(retrieved)]))

\* A get_next_command on the restarted, still empty module found nothing.
C14_Witness ==
    /\ initialized = 1
    /\ admitted = <<>>
    /\ returned.op = "get_next_command"
    /\ returned.ret = EXIT_FAILURE
    /\ returned.log = "No active commands available"
    /\ Len(unused_command_pool) = POOL_SIZE

InitNullPort == "Initialization failed: port name is NULL"
InitLongPort == "Initialization failed: port name exceeds maximum length"

\* C15: init on an uninitialized module returns EXIT_FAILURE at once when
\* port_name is NULL or longer than MAX_PORT_NAME characters, and goes on to
\* open the port when the name has MAX_PORT_NAME characters or fewer; an init
\* that fails leaves the module uninitialized.
C15_PortName ==
    [][\A t \in Threads :
          /\ (initialized = 0 /\ InitCallBy(t))
                => \/ /\ pc'[t] = "idle"
                      /\ returned'.arg = NULL
                      /\ returned'.ret = EXIT_FAILURE
                      /\ returned'.log = InitNullPort
                      /\ UNCHANGED <<shared, os, history>>
                   \/ /\ pc'[t] = "idle"
                      /\ returned'.arg # NULL
                      /\ Deref(returned'.arg).len > MAX_PORT_NAME
                      /\ returned'.ret = EXIT_FAILURE
                      /\ returned'.log = InitLongPort
                      /\ UNCHANGED <<shared, os, history>>
                   \/ /\ pc'[t] = "init_open"
                      /\ local'[t].port # NULL
                      /\ Deref(local'[t].port).len <= MAX_PORT_NAME
          /\ (initialized = 0 /\ returned'.thread = t /\ returned'.op = "init"
                /\ returned'.ret # EXIT_SUCCESS)
                => initialized' = 0]_vars

\* A name of MAX_PORT_NAME + 1 characters was refused.
C15_Witness ==
    /\ initialized = 0
    /\ returned.op = "init"
    /\ returned.arg = Ptr(Tty31)
    /\ Tty31.len = MAX_PORT_NAME + 1
    /\ returned.ret = EXIT_FAILURE
    /\ returned.log = InitLongPort

GetPcs == {"get_sem_wait", "get_first", "get_remove", "get_copy", "get_insert",
           "get_post"}
\* No get_next_command has taken a command since init, and none is running.
NoRetrieve == retrieved = <<>> /\ \A t \in Threads : pc[t] \notin GetPcs

\* C16: while threads add valid commands concurrently and nothing is
\* retrieved, at most POOL_SIZE adds go through; an add of a valid command
\* fails only when POOL_SIZE commands are already in (or its sem_wait fails),
\* so min(attempts, POOL_SIZE) of them succeed; and when every call has
\* returned the two pools hold POOL_SIZE slots together.
C16_ConcurrentAdds ==
    (initialized = 1 /\ NoLifecycle /\ NoRetrieve)
        => /\ Len(admitted) <= POOL_SIZE
           /\ (returned.op = "add" /\ returned.ret = EXIT_SUCCESS)
                 => Valid(Deref(returned.arg))
           /\ (returned.op = "add" /\ is_valid_command(returned.arg) = EXIT_SUCCESS
                 /\ returned.ret # EXIT_SUCCESS)
                 => \/ returned.log = AddFull /\ Len(admitted) = POOL_SIZE
                    \/ returned.log = AddNoLock
           /\ (\A t \in Threads : pc[t] = "idle")
                 => /\ Len(active_command_pool) = Len(admitted)
                    /\ Len(active_command_pool) + Len(unused_command_pool) = POOL_SIZE

\* One thread's add went through while another thread was inside add, and the
\* pool is now full with nothing retrieved.
C16_Witness ==
    /\ initialized = 1
    /\ NoRetrieve
    /\ returned.op = "add"
    /\ returned.ret = EXIT_SUCCESS
    /\ \E t \in Threads : t # returned.thread /\ pc[t] = "add_sem_wait"
    /\ Len(admitted) = POOL_SIZE
    /\ unused_command_pool = <<>>

\* A thread at one of these is inside add, get_next_command or a count: it
\* has a sem_wait or a sem_post still to do.
PoolPcs == {"add_sem_wait", "get_sem_wait", "active_count_sem_wait",
            "unused_count_sem_wait"} \cup (CriticalPcs \ LifecyclePcs)
\* A thread at one of these is about to read or write an entry of the block.
EntryPcs == {"add_remove", "add_copy", "add_insert",
             "get_remove", "get_copy", "get_insert"}

\* C17: whatever the interleaving of a deinit with add, get_next_command and
\* the counts on other threads, no call that is under way reads or writes an
\* entry of the block after deinit has freed it, and none has a semaphore
\* operation to do after deinit has destroyed the semaphore: a call runs
\* against the live pool or is rejected.
C17_NoUseAfterDeinit ==
    \A t \in Threads :
        /\ pc[t] \in EntryPcs => block_live
        /\ pc[t] \in PoolPcs => cmd_semaphore.live

Holders == {t \in Threads : InCritical(t)}

\* C18: at most one thread is between a successful sem_wait and its sem_post,
\* over add, get_next_command, the two counts and deinit, the semaphore being
\* down exactly while one is; and the two queues and the slots change only in
\* a step of the thread that holds the semaphore (or of init, which builds
\* them).
C18_MutualExclusion ==
    /\ [](/\ Cardinality(Holders) <= 1
          /\ cmd_semaphore.live => cmd_semaphore.value = 1 - Cardinality(Holders))
    /\ [][queues' # queues
            => \E t \in Threads :
                  /\ pc'[t] # pc[t] \/ local'[t] # local[t]
                  /\ \/ Holders = {t}
                     \/ pc[t] \in {"init_tailq", "init_calloc", "init_seed"}]_vars

\* One thread is copying a command into a slot while another waits for the
\* semaphore in get_next_command.
C18_Witness ==
    /\ pc[1] = "add_copy"
    /\ pc[2] = "get_sem_wait"
    /\ cmd_semaphore = [live |-> TRUE, value |-> 0]
    /\ active_command_pool # <<>>

\* The observer has read both counts, the unused count after the active one.
BothSeen == seen.on /\ seen.active >= 0 /\ seen.unused >= 0

\* C19 as stated: the active count and the unused count read by two
\* successive calls of one thread add up to POOL_SIZE, also while other
\* threads add and retrieve between the two calls.
C19_SuccessiveCounts ==
    BothSeen => seen.active + seen.unused = POOL_SIZE

\* C19, amended: the two counts read by successive calls of one thread add up
\* to POOL_SIZE when no command was added or handed out between the two
\* reads; in general the sum is off by the commands added less those handed
\* out between the reads.
C19_QuietCounts ==
    (BothSeen /\ returned.thread = Observer
       /\ returned.op = "get_unused_command_count")
        => /\ seen.at = <<Len(admitted), Len(retrieved)>>
                 => seen.active + seen.unused = POOL_SIZE
           /\ seen.active = seen.at[1] - seen.at[2]
           /\ seen.active + seen.unused
                 = POOL_SIZE - (Len(admitted) - seen.at[1])
                             + (Len(retrieved) - seen.at[2])

\* The observer read 2 and POOL_SIZE - 2 while another thread was inside add
\* but had not yet moved a slot.
C19_Witness ==
    /\ BothSeen
    /\ returned.thread = Observer
    /\ returned.op = "get_unused_command_count"
    /\ seen.at = <<Len(admitted), Len(retrieved)>>
    /\ seen.active = 2
    /\ seen.unused = POOL_SIZE - 2
    /\ \E t \in Threads : pc[t] = "add_sem_wait"

GetEmpty == "No active commands available"
GetFaults == {"Failed to get command: module not initialized or NULL pointer",
              "Failed to lock semaphore while getting command"}

\* C20: get_next_command returns, for an empty active pool, a value other
\* than the one it returns when the module is not initialized, the
\* destination is NULL or sem_wait fails, so that the returned value alone
\* tells "no work" from a fault.
C20_EmptyIsNotAFault ==
    returned.op = "get_next_command"
        => /\ returned.log \in GetFaults => returned.ret = EXIT_FAILURE
           /\ returned.log = GetEmpty => returned.ret # EXIT_FAILURE

GetRejected == "Failed to get command: module not initialized or NULL pointer"

\* Thread t calls get_next_command in this step.
GetCallBy(t) ==
    /\ pc[t] = "idle"
    /\ \/ pc'[t] \in GetPcs
       \/ returned'.thread = t /\ returned'.op = "get_next_command"

\* C21: get_next_command with a NULL destination on the initialized module
\* returns EXIT_FAILURE at once: the semaphore is not touched, both queues and
\* the slots are as before, and the command at the head of the active pool is
\* still the next in line, the one the next successful get_next_command
\* hands out.
C21_GetWithoutDestination ==
    [][\A t \in Threads :
          /\ (initialized = 1 /\ GetCallBy(t) /\ pc'[t] \in GetPcs)
                => local'[t].dst # NULL
          /\ (initialized = 1 /\ GetCallBy(t) /\ pc'[t] = "idle")
                => /\ returned'.arg = NULL
                   /\ returned'.ret = EXIT_FAILURE
                   /\ returned'.log = GetRejected
                   /\ UNCHANGED <<shared, os, history>>
                   /\ (active_command_pool' # <<>> /\ Holders = {})
                         => slot_cmd'[Head(active_command_pool')]
                               = admitted'[Len(retrieved') + 1]]_vars

\* get_next_command(NULL) failed with two commands queued.
C21_Witness ==
    /\ initialized = 1
    /\ returned.op = "get_next_command"
    /\ returned.arg = NULL
    /\ returned.ret = EXIT_FAILURE
    /\ Len(active_command_pool) = 2
    /\ slot_cmd[Head(active_command_pool)] = OnOff(1, 1)
    /\ cmd_semaphore = [live |-> TRUE, value |-> 1]

\* C22: get_next_command does not wait for a command.  A caller that finds
\* the active pool empty (line 322) returns EXIT_FAILURE in that step with the
\* semaphore posted and both queues and the slots as they were, and it does
\* return, although nothing is ever admitted.
C22_NoWaitForWork ==
    /\ [][\A t \in Threads :
            (pc[t] = "get_first" /\ active_command_pool = <<>> /\ pc'[t] # pc[t])
               => /\ pc'[t] = "idle"
                  /\ returned'.thread = t
                  /\ returned'.op = "get_next_command"
                  /\ returned'.ret = EXIT_FAILURE
                  /\ returned'.log = GetEmpty
                  /\ returned'.out = local[t].dst
                  /\ cmd_semaphore' = [live |-> TRUE, value |-> 1]
                  /\ UNCHANGED <<queues, history>>]_vars
    /\ \A t \in Threads :
          (pc[t] = "get_first" /\ active_command_pool = <<>>)
             ~> (/\ pc[t] = "idle"
                 /\ returned.thread = t
                 /\ returned.log = GetEmpty
                 /\ cmd_semaphore.value = 1)

\* The queued commands have been handed out and one more call found the
\* active pool empty.
C22_Witness ==
    /\ returned.op = "get_next_command"
    /\ returned.ret = EXIT_FAILURE
    /\ returned.log = GetEmpty
    /\ Len(retrieved) = POOL_SIZE - 1
    /\ Len(unused_command_pool) = POOL_SIZE
    /\ cmd_semaphore.value = 1

\* Where each sem_wait is, what its function returns and logs when it fails,
\* and the first statement under the lock.
LockSites ==
    { [at |-> "add_sem_wait", op |-> "add", ret |-> EXIT_FAILURE,
       log |-> AddNoLock, then |-> "add_first"],
      [at |-> "get_sem_wait", op |-> "get_next_command", ret |-> EXIT_FAILURE,
       log |-> "Failed to lock semaphore while getting command", then |-> "get_first"],
      [at |-> "deinit_sem_wait", op |-> "deinit", ret |-> EXIT_FAILURE,
       log |-> DeinitNoLock, then |-> "deinit_close"],
      [at |-> "active_count_sem_wait", op |-> "get_active_command_count", ret |-> 0,
       log |-> "Failed to lock semaphore while counting commands",
       then |-> "active_count_walk"],
      [at |-> "unused_count_sem_wait", op |-> "get_unused_command_count", ret |-> 0,
       log |-> "Failed to lock semaphore while counting unused slots",
       then |-> "unused_count_walk"] }

\* C23: a failed sem_wait ends the call on the spot.  add, get_next_command
\* and deinit return EXIT_FAILURE and the two counts return 0; the call is
\* not retried; the semaphore, both queues, the slots, the block and the fd
\* are as before and the module is still initialized.  A thread is past a
\* sem_wait only by having taken the semaphore.
C23_LockFailure ==
    [][\A t \in Threads : \A site \in LockSites :
          (pc[t] = site.at /\ pc'[t] # pc[t])
             => \/ /\ pc'[t] = site.then
                   /\ cmd_semaphore.value = 1
                   /\ cmd_semaphore'.value = 0
                \/ /\ pc'[t] = "idle"
                   /\ returned'.thread = t
                   /\ returned'.op = site.op
                   /\ returned'.ret = site.ret
                   /\ returned'.log = site.log
                   /\ initialized' = 1
                   /\ UNCHANGED <<shared, os, history>>]_vars

\* get_active_command_count could not take the semaphore and returned 0 with
\* two commands queued.
C23_Witness ==
    /\ returned.op = "get_active_command_count"
    /\ returned.log = "Failed to lock semaphore while counting commands"
    /\ returned.ret = 0
    /\ Len(active_command_pool) = 2
    /\ initialized = 1
    /\ cmd_semaphore.value = 1

\* C24: when the sem_post that ends add, get_next_command or deinit fails, the
\* call returns EXIT_FAILURE, and the semaphore is not left down with nobody
\* inside to post it, so the next sem_wait on it can succeed.
C24_UnlockFailureSurfaced ==
    /\ returned.log \in {AddUnlockFailed, GetUnlockFailed}
          => returned.ret = EXIT_FAILURE
    /\ (returned.op = "deinit" /\ cmd_semaphore.value = 0)
          => returned.ret = EXIT_FAILURE
    /\ (cmd_semaphore.live /\ Holders = {}) => cmd_semaphore.value = 1

\* C25: of the init calls that overlap on the uninitialized module at most
\* one returns EXIT_SUCCESS; sem_init runs on no semaphore that is live,
\* calloc replaces no block that is still allocated, and the pools are not
\* emptied and seeded again once they have been built.
C25_SingleInit ==
    [][\A t \in Threads :
          /\ (pc[t] = "init_done" /\ pc'[t] = "idle") => initialized = 0
          /\ (pc[t] = "init_sem" /\ pc'[t] = "init_tailq") => ~cmd_semaphore.live
          /\ (pc[t] = "init_calloc" /\ pc'[t] = "init_seed") => pool_entries = NULL
          /\ (pc[t] = "init_tailq" /\ pc'[t] = "init_calloc")
                => unused_command_pool = <<>>]_vars

\* C26: when init has failed at open, tcgetattr, tcsetattr, sem_init or calloc
\* the module is uninitialized, the descriptor it opened is closed and
\* serial_fd no longer holds it, no descriptor of somebody else was closed,
\* and neither the semaphore nor the block exists.
C26_NoPartialState ==
    (returned.op = "init" /\ returned.log \in InitEnvFailures)
        => /\ initialized = 0
           /\ os_fds = {}
           /\ serial_fd < 0
           /\ foreign_closed = {}
           /\ ~cmd_semaphore.live
           /\ pool_entries = NULL /\ ~block_live

AddNotInit == "Failed to add command: module not initialized"

\* C27: the value add returns tells why the command was refused: the value
\* returned when the module is not initialized is returned neither for a
\* missing or invalid command nor for a full pool.
C27_AddFailuresDistinct ==
    returned.op = "add"
        => /\ returned.log = AddNotInit => returned.ret = EXIT_FAILURE
           /\ returned.log \in {AddNull, AddInvalid, AddFull}
                 => returned.ret \notin {EXIT_SUCCESS, EXIT_FAILURE}

WalkPcs == {"active_count_walk", "unused_count_walk"}

\* C28: a slot is out of both queues only inside the critical section of the
\* add or get_next_command that moves it.  A count walks its queue while its
\* thread alone is inside, with every slot in one queue, and returns the length
\* it walked; outside the critical sections the two lengths are the number of
\* commands added less those handed out and POOL_SIZE less that number, and
\* that number changes by one, in a step of the thread that holds the
\* semaphore.
C28_AtomicMoves ==
    /\ [](/\ \A t \in Threads :
                /\ pc[t] \in WalkPcs
                      => /\ Holders = {t}
                         /\ Partition
                         /\ Len(active_command_pool) = Held
                         /\ Len(unused_command_pool) = POOL_SIZE - Held
                /\ pc[t] = "active_count_post" => local[t].count = Held
                /\ pc[t] = "unused_count_post" => local[t].count = POOL_SIZE - Held
          /\ (initialized = 1 /\ NoLifecycle /\ Holders = {})
                => /\ Len(active_command_pool) = Held
                   /\ Len(unused_command_pool) = POOL_SIZE - Held)
    /\ [][\A t \in Threads :
            /\ (pc[t] \in {"active_count_post", "unused_count_post"} /\ pc'[t] = "idle")
                  => returned'.ret = local[t].count
            /\ (initialized = 1 /\ initialized' = 1 /\ Held' # Held)
                  => /\ Cardinality(Holders) = 1
                     /\ Held' \in {Held - 1, Held + 1}]_vars

\* get_active_command_count returned 2 while the other thread, about to take
\* a command out, was waiting for the semaphore.
C28_Witness ==
    /\ returned.thread = 1
    /\ returned.op = "get_active_command_count"
    /\ returned.log = ""
    /\ returned.ret = 2
    /\ pc[2] = "get_sem_wait"
    /\ Len(active_command_pool) = 2

AddRefusedUnlocked == {AddNotInit, AddNull, AddInvalid}

\* C29: add tests the module's state, the pointer and the command before it
\* calls sem_wait.  An add of a missing or invalid command, or on the
\* uninitialized module, returns EXIT_FAILURE in its first step, whatever the
\* semaphore's value and whoever holds it, and leaves it untouched; only an
\* add of a valid command on the initialized module reaches sem_wait.
C29_ValidationLockFree ==
    [][\A t \in Threads :
          /\ (pc[t] = "idle" /\ pc'[t] = "add_sem_wait")
                => /\ initialized = 1
                   /\ local'[t].cmd # NULL
                   /\ is_valid_command(local'[t].cmd) = EXIT_SUCCESS
          /\ (pc[t] = "idle" /\ returned'.thread = t /\ returned'.op = "add")
                => /\ pc'[t] = "idle"
                   /\ returned'.ret = EXIT_FAILURE
                   /\ returned'.log =
                         IF initialized = 0 THEN AddNotInit
                         ELSE IF returned'.arg = NULL THEN AddNull
                         ELSE AddInvalid
                   /\ initialized = 1 /\ returned'.arg # NULL
                         => is_valid_command(returned'.arg) # EXIT_SUCCESS
                   /\ UNCHANGED <<shared, os, history>>
          /\ (returned'.thread = t /\ returned'.op = "add"
                /\ returned'.log \in AddRefusedUnlocked)
                => pc[t] = "idle"]_vars

\* An add of an invalid command returned while the other thread held the
\* semaphore, copying a command out.
C29_Witness ==
    /\ returned.thread = 1
    /\ returned.op = "add"
    /\ returned.log = AddInvalid
    /\ returned.ret = EXIT_FAILURE
    /\ pc[2] = "get_copy"
    /\ cmd_semaphore.value = 0

\* C30: deinit closes serial_fd and frees the block between its sem_wait and
\* its sem_post, the semaphore being down and deinit's thread the only one
\* inside a critical section; it posts, then destroys the semaphore, and
\* only then sets initialized to 0.  So the block is never freed while
\* another thread is between sem_wait and sem_post in add, get_next_command
\* or a count.
C30_TeardownUnderLock ==
    /\ [](\A t \in Threads :
             pc[t] \in {"deinit_close", "deinit_free"}
                => (Holders = {t} /\ cmd_semaphore.value = 0))
    /\ [][/\ (block_live /\ ~block_live')
                => \E t \in Threads : pc[t] = "deinit_free" /\ pc'[t] = "deinit_post"
          /\ (initialized = 1 /\ serial_fd' # serial_fd)
                => \E t \in Threads : pc[t] = "deinit_close" /\ pc'[t] = "deinit_free"
          /\ \A t \in Threads :
                /\ (pc'[t] = "deinit_destroy" /\ pc[t] # pc'[t])
                      => /\ pc[t] = "deinit_post"
                         /\ cmd_semaphore'.value = cmd_semaphore.value + 1
                         /\ ~block_live' /\ serial_fd' = -1
                /\ (pc'[t] = "deinit_done" /\ pc[t] # pc'[t])
                      => pc[t] = "deinit_destroy" /\ ~cmd_semaphore'.live
          /\ (initialized = 1 /\ initialized' = 0)
                => \E t \in Threads :
                      /\ pc[t] = "deinit_done" /\ pc'[t] = "idle"
                      /\ t \notin Holders
                      /\ ~cmd_semaphore.live]_vars

\* deinit is about to free the block, holding the semaphore, while the other
\* thread waits for it in add.
C30_Witness ==
    /\ pc[1] = "deinit_free"
    /\ pc[2] = "add_sem_wait"
    /\ block_live
    /\ cmd_semaphore.value = 0
    /\ active_command_pool # <<>>

\* C31: a full pool takes commands again after one get_next_command, with no
\* init in between.  The get puts exactly the slot it emptied back in the
\* unused pool; an add refuses with "pool is full" only when the unused pool
\* is empty, so the add that finds that one slot takes it, and its command is
\* queued in it.
C31_FullIsRecoverable ==
    [][\A t \in Threads :
          /\ (pc[t] = "get_insert" /\ pc'[t] # pc[t])
                => /\ unused_command_pool'
                         = Append(unused_command_pool, Deref(local[t].entry))
                   /\ Deref(local[t].entry) \notin
                         {unused_command_pool[i] : i \in 1..Len(unused_command_pool)}
                   /\ initialized' = 1
          /\ (pc[t] = "add_first" /\ pc'[t] # pc[t] /\ unused_command_pool # <<>>)
                => /\ pc'[t] = "add_remove"
                   /\ local'[t].entry = Ptr(Head(unused_command_pool))
          /\ (pc[t] = "add_post" /\ pc'[t] = "idle")
                => /\ returned'.ret = EXIT_SUCCESS
                   /\ active_command_pool # <<>>
                   /\ Deref(local[t].entry)
                         = active_command_pool[Len(active_command_pool)]
                   /\ slot_cmd[Deref(local[t].entry)] = Deref(local[t].cmd)
                   /\ admitted[Len(admitted)] = Deref(local[t].cmd)]_vars

\* POOL_SIZE commands filled the pool, one was handed out, and one more add
\* has succeeded, in the slot that the get gave back.
C31_Witness ==
    /\ returned.op = "add"
    /\ returned.ret = EXIT_SUCCESS
    /\ Len(admitted) = POOL_SIZE + 1
    /\ Len(retrieved) = 1
    /\ Len(active_command_pool) = POOL_SIZE
    /\ active_command_pool[POOL_SIZE] = 0
    /\ unused_command_pool = <<>>

\* The slots a queue links, and those unlinked for the moment by the thread
\* that is moving them (between TAILQ_REMOVE and TAILQ_INSERT_TAIL).
Linked(q) == {q[i] : i \in 1..Len(q)}
InHand == {Deref(local[t].entry) :
              t \in {u \in Threads : pc[u] \in {"add_copy", "add_insert",
                                                "get_copy", "get_insert"}}}

\* C32: from init to deinit the slots are the POOL_SIZE entries of the block
\* calloc returned.  add and get_next_command leave the block alone and only
\* relink entries: at every moment each slot is in the unused pool, in the
\* active pool or in the hand of the one thread moving it, once, and when no
\* thread is moving one the two pools together link all of them.
C32_SlotsFixed ==
    /\ []((initialized = 1 /\ NoLifecycle)
             => /\ Linked(unused_command_pool) \cup Linked(active_command_pool)
                      \cup InHand = Slots
                /\ Len(unused_command_pool) + Len(active_command_pool)
                      + Cardinality(InHand) = POOL_SIZE
                /\ Cardinality(InHand) <= 1
                /\ InHand = {}
                      => Linked(unused_command_pool)
                            \cup Linked(active_command_pool) = Slots
                /\ block_live /\ pool_entries = Ptr("block"))
    /\ [][(NoLifecycle /\ initialized = 1 /\ initialized' = 1)
             => UNCHANGED <<pool_entries, block_live>>]_vars

\* Slots have gone round: the unused pool no longer starts with slot 0, and
\* one slot is in the hand of a thread that is handing its command out.
C32_Witness ==
    /\ initialized = 1
    /\ Len(retrieved) >= 2
    /\ pc[1] = "get_insert"
    /\ InHand = {Deref(local[1].entry)}
    /\ unused_command_pool # <<>>
    /\ Head(unused_command_pool) # 0
    /\ Len(unused_command_pool) + Len(active_command_pool) = POOL_SIZE - 1

\* C33: the unused pool is a queue.  add unlinks the entry at its head,
\* get_next_command links the emptied entry at its tail and nothing else
\* reorders it, so the entry that was given back first is taken first; the
\* first POOL_SIZE adds after an init take the entries 0, 1, 2, ... in that
\* order, whatever gets come in between.
C33_UnusedIsFifo ==
    [][/\ \A t \in Threads :
            /\ (pc[t] = "add_first" /\ pc'[t] = "add_remove")
                  => local'[t].entry = Ptr(Head(unused_command_pool))
            /\ (pc[t] = "add_remove" /\ pc'[t] # pc[t])
                  => /\ Deref(local[t].entry) = Head(unused_command_pool)
                     /\ unused_command_pool' = Tail(unused_command_pool)
            /\ (pc[t] = "get_insert" /\ pc'[t] # pc[t])
                  => unused_command_pool'
                        = Append(unused_command_pool, Deref(local[t].entry))
            /\ (pc[t] = "add_insert" /\ pc'[t] # pc[t] /\ Len(admitted) < POOL_SIZE)
                  => Deref(local[t].entry) = Len(admitted)
       /\ (unused_command_pool' # unused_command_pool /\ NoLifecycle)
             => \E t \in Threads : pc[t] \in {"add_remove", "get_insert"}]_vars

\* The third add after init is about to link entry 2, although entry 0 was
\* given back before it and waits in the unused pool.
C33_Witness ==
    /\ pc[1] = "add_insert"
    /\ local[1].entry = Ptr(2)
    /\ Len(admitted) = 2
    /\ Len(retrieved) = 1
    /\ unused_command_pool = <<0>>

\* The bytes of the union that the variant named by the tag does not use:
\* none for SET_PARAMS, the third for ON_OFF, all three for any other tag.
PadSamples == {0, 100, 255}
Repadded(c) ==
    IF c.command_type = CMD_SET_PARAMS THEN {c}
    ELSE IF c.command_type = CMD_ON_OFF
      THEN {Cmd(CMD_ON_OFF, on_off(c), channel(c), x) : x \in ByteSamples}
    ELSE {Cmd(c.command_type, x, y, z) : x \in PadSamples, y \in PadSamples,
                                         z \in PadSamples}

\* C34: what add decides about a command is what is_valid_command yields for
\* every command with the same tag and the same fields of that tag's variant,
\* whatever the other bytes hold: an EMERGENCY command is accepted with any
\* payload, and an ON_OFF command is accepted or refused alike for every value
\* of the byte after channel.
C34_VerdictByVariant ==
    (returned.op = "add" /\ returned.arg # NULL)
        => LET c == Deref(returned.arg) IN
           /\ Accepted \/ Refused
           /\ \A d \in Repadded(c) :
                 Accepted <=> is_valid_command(Ptr(d)) = EXIT_SUCCESS
           /\ c.command_type = CMD_EMERGENCY => Accepted
           /\ c.command_type = CMD_ON_OFF
                 => (Accepted <=> (on_off(c) \in {0, 1} /\ channel(c) <= 7))

\* An ON_OFF command whose third byte is 255 was added.
C34_Witness ==
    /\ returned.op = "add"
    /\ returned.arg = Ptr(Cmd(CMD_ON_OFF, 1, 7, 255))
    /\ returned.ret = EXIT_SUCCESS
    /\ slot_cmd[0] = Cmd(CMD_ON_OFF, 1, 7, 255)

\* The commands in the active pool, oldest first.
Queue == [i \in 1..Len(active_command_pool) |-> slot_cmd[active_command_pool[i]]]

\* C35: the pool keeps its own copy of a command and hands out a copy.  When
\* a caller assigns its variable after add has returned, the queues and the
\* slots stay as they are, and the queued commands are those that were passed
\* to add, as they were then; a caller's variable changes only when its own
\* thread assigns it or gets a command into it, so an add that reuses the
\* slot leaves the command that was handed out untouched.
C35_CopiedInAndOut ==
    /\ [](Holders = {}
             => Queue = SubSeq(admitted, Len(retrieved) + 1, Len(admitted)))
    /\ [][\A t \in Threads :
            caller'.buf[t] # caller.buf[t]
               => \/ /\ pc[t] = "idle" /\ pc'[t] = "idle"
                     /\ UNCHANGED <<shared, history>>
                  \/ /\ pc[t] = "get_post" /\ pc'[t] = "idle"
                     /\ returned'.ret = EXIT_SUCCESS
                     /\ caller'.buf[t] = retrieved[Len(retrieved)]
                     /\ returned'.out = Ptr(caller'.buf[t])]_vars

\* The producer has assigned another command to its variable since its last
\* add, and slot 0 holds a new command while the consumer still has the one
\* it got from that slot.
C35_Witness ==
    /\ Holders = {}
    /\ Len(admitted) = POOL_SIZE + 1
    /\ Len(retrieved) = 1
    /\ caller.buf[Producer] # admitted[Len(admitted)]
    /\ caller.buf[2] = retrieved[1]
    /\ slot_cmd[0] # caller.buf[2]
    /\ slot_cmd[0] = admitted[Len(admitted)]

\* C36: with any number of threads in add and in get_next_command and no
\* deinit, the commands added are, in order, those handed out followed by
\* those in the active pool: none is lost and none is there twice.  The entry
\* a get_next_command copies from is no longer in the active pool, so no other
\* call can hand it out, and each get hands out the next command not yet
\* handed out, which its caller receives.
C36_ExactlyOnce ==
    /\ []((initialized = 1 /\ NoLifecycle)
             => /\ Len(retrieved) <= Len(admitted)
                /\ Holders = {} => admitted = retrieved \o Queue)
    /\ [][\A t \in Threads :
            /\ (pc[t] = "get_copy" /\ pc'[t] # pc[t])
                  => /\ Deref(local[t].entry) \notin Linked(active_command_pool)
                     /\ Len(retrieved) < Len(admitted)
                     /\ retrieved' = Append(retrieved, admitted[Len(retrieved) + 1])
            /\ (pc[t] = "get_post" /\ pc'[t] = "idle"
                  /\ returned'.ret = EXIT_SUCCESS)
                  => returned'.out = Ptr(retrieved[Len(retrieved)])
            /\ retrieved' # retrieved
                  => \/ Cardinality({u \in Threads : pc[u] = "get_copy"
                                                      /\ pc'[u] = "get_insert"}) = 1
                     \/ retrieved' = <<>>]_vars

\* The second of two different commands was handed to thread 2 while thread 1
\* was in get_next_command too, waiting for the semaphore.
C36_Witness ==
    /\ returned.thread = 2
    /\ returned.op = "get_next_command"
    /\ returned.ret = EXIT_SUCCESS
    /\ Len(retrieved) = 2
    /\ retrieved[1] # retrieved[2]
    /\ returned.out = Ptr(admitted[2])
    /\ pc[1] = "get_sem_wait"

\* Strong fairness of sem_wait: a thread that finds the semaphore free again
\* and again eventually takes it.
FairSemaphore == \A t \in Threads : SF_vars(Acquire(t))

\* C37 as stated: under fair scheduling every call of add, get_next_command
\* and the counts eventually returns.
C37_EveryCallReturns ==
    \A t \in Threads : (pc[t] # "idle") ~> (pc[t] = "idle")

\* C37, amended: every path that takes the semaphore posts it once before it
\* returns, the pool-full and empty-pool paths included, so the semaphore is
\* down only while a thread is inside and a call that is inside returns; a
\* call waiting in sem_wait returns if sem_wait is strongly fair, while under
\* fair scheduling of the threads alone it can be overtaken for ever.
C37_NoDeadlock ==
    /\ [](cmd_semaphore.value = 1 - Cardinality(Holders))
    /\ [][\A t \in Threads :
            (InCritical(t) /\ pc'[t] = "idle")
               => cmd_semaphore'.value = cmd_semaphore.value + 1]_vars
    /\ \A t \in Threads : InCritical(t) ~> (pc[t] = "idle")
    /\ FairSemaphore => C37_EveryCallReturns

\* An add waits in sem_wait while a count walks the unused pool.
C37_Witness ==
    /\ pc[1] = "add_sem_wait"
    /\ pc[2] = "unused_count_walk"
    /\ cmd_semaphore.value = 0

C39_ClosesOnlyItsOwn == foreign_closed = {}

====
